---- MODULE Spec2Model ----
(***************************************************************************)
(* Model of the VoltZ ingestion-and-retrieval pipeline:                    *)
(*   - DatasheetIngestionService.create_text_chunks (the chunker),         *)
(*   - EmbeddingService (lazy, lock-guarded encoder and the embed calls),  *)
(*   - VectorDBService.add_document_chunks and its collection,             *)
(*   - DatasheetIngestionService.ingest_datasheet / batch_ingest.          *)
(*   - the first calls of several threads on the process-wide services     *)
(*     (get_embedding_service, get_vector_db_service, _get_collection).    *)
(* A text is a sequence of one-character strings.  Positions are the       *)
(* 0-based positions of the Python source; t[i] of the source is t[i+1]    *)
(* of the sequence.                                                        *)
(***************************************************************************)
EXTENDS Integers, Sequences, FiniteSets, TLC

(***************************************************************************)
(* Bounds of the model.                                                    *)
(***************************************************************************)
MaxLen == 6
MaxMin == 2
MaxChunk == 5
MaxOverlap == 1
NumThreads == 2
MaxBatch == 2
MaxIds == 3
MaxCalls == 3
MaxConfigs == 3
MaxResults == 2

(***************************************************************************)
(* Program constants.                                                      *)
(***************************************************************************)
DefaultMinChunkSize == 1000
DefaultMaxChunkSize == 2000
DefaultOverlapSize == 200
SentenceWindow == 200

Alphabet == {"a", " ", ".", "!"}
\* A character is a string of one code point between 0 and 255, the range a
\* string of this module can hold (the backquote, code point 96, excepted).
\* The characters str.strip() removes (lines 58, 90, 109, 135) and \s matches
\* (lines 80, 84, 87, 90): code points 9-13, 28-32, 133 and 160. Python
\* counts 17 more above 255 (U+1680, U+2000-U+200A, U+2028, U+2029, U+202F,
\* U+205F, U+3000).
Whitespace ==
    {"\t", "\n", "", "\f", "\r", "", "", "", "", " ", "", " "}
Patterns == << <<".", " ">>, <<"!", " ">>, <<"?", " ">>,
               <<".", "\n">>, <<"!", "\n">>, <<"?", "\n">> >>

VARIABLES
    text,             \* create_text_chunks: the argument text
    min_chunk_size,   \* self.min_chunk_size
    max_chunk_size,   \* self.max_chunk_size
    overlap_size,     \* self.overlap_size
    cpc,              \* create_text_chunks: "entry", "loop" or "done"
    start_pos,        \* create_text_chunks: the cursor
    chunk_index,      \* create_text_chunks: the running index
    chunks,           \* create_text_chunks: the list of emitted chunks
    iters,            \* history: one record per executed loop iteration

    e_model,          \* EmbeddingService._model: 0 is None, else the encoder
    e_lock,           \* EmbeddingService._lock: 0 is free, else the holder
    ctor_calls,       \* calls of SentenceTransformer(...) made so far, a call
                      \* that has not ended yet included
    ctor_failed,      \* those of them that raised
    tpc,              \* per thread: where its call stands
    tcall,            \* per thread: the call it makes
    tmodel,           \* per thread: what _get_model returned to it
    tenc,             \* per thread: the inputs it passed to encode
    tres,             \* per thread: the outcome of its call
    v_client,         \* VectorDBService._client: 0 is None, 1 the client
    v_collection,     \* VectorDBService._collection: 0 is None, else the
                      \* generation of the collection the handle is of
    db_exists,        \* the store holds a collection "component_datasheets"
    db_gen,           \* collections created in the store so far
    db_records,       \* the records of the collection, in insertion order
    next_id,          \* ids generated so far (uuid4 never repeats)
    v_calls,          \* calls made on the VectorDBService so far
    v_last,           \* the last call made on it and its outcome
    v_added,          \* history: chunks added by the successful
                      \* add_document_chunks calls since the last successful
                      \* delete_collection
    fs,               \* the files: path -> what is at that path
    b_configs,        \* batch_ingest_datasheets: the argument list
    b_pos,            \* batch_ingest_datasheets: entries handled so far
    b_results,        \* batch_ingest_datasheets: the dictionary results
    b_log,            \* history: one record per entry handled
    b_pc,             \* batch_ingest_datasheets: "loop", "done" or "raised"

    g_service,        \* embeddings._embedding_service: 0 is None, else the
                      \* number of the EmbeddingService instance
    svc_models,       \* per EmbeddingService instance: its _model, 0 is None
    svc_locks,        \* per EmbeddingService instance: its _lock, 0 is free,
                      \* else the thread that holds it
    g_vdb,            \* vector_db._vector_db_service: 0 is None, else the
                      \* number of the VectorDBService instance
    vdb_client,       \* per VectorDBService instance: its _client, 0 is None
    vdb_collection,   \* per VectorDBService instance: its _collection,
                      \* NoHandle is None, else the generation of the
                      \* collection the handle is of and the EmbeddingService
                      \* instance its embedding function calls
    fpc,              \* per thread: where its first call stands
    fop,              \* per thread: the call it makes
    fvdb,             \* per thread: what get_vector_db_service returned to it
    fsvc,             \* per thread: what get_embedding_service returned to it
    fh,               \* per thread: the handle _get_collection returned to it
    fnew,             \* per thread: the handle create_collection returned to
                      \* it, NoHandle if it made no such call
    fmodel,           \* per thread: what _get_model returned to it
    fctor,            \* per thread: the constructor call it made, 0 if none
    fres,             \* per thread: the outcome of its call
    fval              \* per thread: the ids, documents or count of its call

chunkVars == <<text, min_chunk_size, max_chunk_size, overlap_size, cpc,
               start_pos, chunk_index, chunks, iters>>

embVars == <<e_model, e_lock, ctor_calls, ctor_failed, tpc, tcall, tmodel,
             tenc, tres>>

storeVars == <<v_client, v_collection, db_exists, db_gen, db_records, next_id,
               v_calls, v_last, v_added>>

batchVars == <<fs, b_configs, b_pos, b_results, b_log, b_pc>>

firstVars == <<g_service, svc_models, svc_locks, g_vdb, vdb_client,
               vdb_collection, fpc, fop, fvdb, fsvc, fh, fnew, fmodel, fctor,
               fres, fval>>

vars == <<chunkVars, embVars, storeVars, batchVars, firstVars>>

(***************************************************************************)
(* Helpers on integers and texts.                                          *)
(***************************************************************************)
Min2(a, b) == IF a <= b THEN a ELSE b
Max2(a, b) == IF a >= b THEN a ELSE b
SetMax(S) == CHOOSE x \in S : \A y \in S : y <= x
SetMin(S) == CHOOSE x \in S : \A y \in S : x <= y

\* the j-th smallest element of the set S of numbers
Kth(S, j) == CHOOSE i \in S : Cardinality({x \in S : x < i}) = j - 1

\* t[a:b] of the source, for 0 <= a and b <= len(t)
Slice(t, a, b) == SubSeq(t, a + 1, b)

\* str.strip(): drop leading and trailing whitespace
RECURSIVE SkipLeft(_, _)
SkipLeft(s, i) ==
    IF i <= Len(s) /\ s[i] \in Whitespace THEN SkipLeft(s, i + 1) ELSE i

RECURSIVE SkipRight(_, _)
SkipRight(s, j) ==
    IF j >= 1 /\ s[j] \in Whitespace THEN SkipRight(s, j - 1) ELSE j

Strip(s) ==
    LET i == SkipLeft(s, 1)
        j == SkipRight(s, Len(s))
    IN  IF i > j THEN <<>> ELSE SubSeq(s, i, j)

\* str.rfind(pat, lo, hi) for 0 <= lo and hi <= len(t): the highest position
\* of an occurrence of pat lying entirely inside [lo, hi), or -1
RFind(t, pat, lo, hi) ==
    LET hits == {i \in lo..(hi - Len(pat)) :
                    \A k \in 1..Len(pat) : t[i + k] = pat[k]}
    IN  IF hits = {} THEN -1 ELSE SetMax(hits)

(***************************************************************************)
(* create_text_chunks: the body of one loop iteration, as functions of the *)
(* text t, the parameters mn (min_chunk_size), mx (max_chunk_size),        *)
(* ov (overlap_size) and the cursor start.                                 *)
(***************************************************************************)

\* line 118: end_pos = min(start_pos + max_chunk_size, len(text))
TentativeEnd(t, mx, start) == Min2(start + mx, Len(t))

\* line 123: search_start = max(start_pos + min_chunk_size, end_pos - 200)
SearchStart(mn, start, end0) == Max2(start + mn, end0 - SentenceWindow)

\* lines 128-129: one pass of the pattern loop; acc is sentence_end so far
PatternStep(t, pat, lo, hi, acc) ==
    LET pos == RFind(t, pat, lo, hi)
    IN  IF pos > acc THEN pos + Len(pat) ELSE acc

\* lines 124-129: sentence_end after patterns k..6 have been tried
RECURSIVE SentenceEndFrom(_, _, _, _, _)
SentenceEndFrom(t, lo, hi, k, acc) ==
    IF k > Len(Patterns) THEN acc
    ELSE SentenceEndFrom(t, lo, hi, k + 1, PatternStep(t, Patterns[k], lo, hi, acc))

SentenceEnd(t, lo, hi) == SentenceEndFrom(t, lo, hi, 1, -1)

\* lines 118-132: end_pos of the iteration that starts at start
EndPos(t, mn, mx, start) ==
    LET end0 == TentativeEnd(t, mx, start)
        se   == SentenceEnd(t, SearchStart(mn, start, end0), end0)
    IN  IF end0 < Len(t) /\ se > 0 THEN se ELSE end0

\* a mutant of line 135: the slice is not stripped
ChunkText_Untrimmed(t, start, end) == Slice(t, start, end)

\* line 135: chunk_text = text[start_pos:end_pos].strip()
ChunkText(t, start, end) == Strip(Slice(t, start, end))

\* a mutant of the test of line 137: every chunk is appended
KeepChunk_Always(t, mn, start, ctext) == TRUE

\* line 137: the condition under which the chunk is appended
KeepChunk(t, mn, start, ctext) ==
    Len(ctext) >= mn \/ start + Len(ctext) >= Len(t)

\* NextStart without the max against start + min_chunk_size and without the
\* forced step of lines 155-156
NextStart_OverlapOnly(mn, ov, start, end) == end - ov

\* a mutant of line 152: the cursor always steps by min_chunk_size
NextStart_MinStep(mn, ov, start, end) == start + mn

\* a mutant of line 152: the overlap is not subtracted
NextStart_NoOverlap(mn, ov, start, end) == Max2(start + mn, end)

\* lines 152-156: the next cursor
NextStart(mn, ov, start, end) ==
    LET next_start == Max2(start + mn, end - ov)
    IN  IF next_start <= start THEN start + mn ELSE next_start

\* a mutant of line 143: chunk_end is taken from the trimmed length
ChunkRecord_TrimmedEnd(t, idx, start, end, ctext) ==
    [text |-> ctext, chunk_index |-> idx, chunk_start |-> start,
     chunk_end |-> start + Len(ctext), chunk_length |-> Len(ctext),
     total_text_length |-> Len(t)]

\* lines 139-146: the metadata of an emitted chunk, with its text
ChunkRecord(t, idx, start, end, ctext) ==
    [text |-> ctext, chunk_index |-> idx, chunk_start |-> start,
     chunk_end |-> end, chunk_length |-> Len(ctext),
     total_text_length |-> Len(t)]

\* line 109: not text.strip()
IsBlank(t) == Strip(t) = <<>>

\* lines 116-162: the loop from cursor start on, acc the chunks so far
RECURSIVE ChunkLoop(_, _, _, _, _, _)
ChunkLoop(t, mn, mx, ov, start, acc) ==
    IF start >= Len(t) THEN acc
    ELSE LET end   == EndPos(t, mn, mx, start)
             ctext == ChunkText(t, start, end)
             out   == IF KeepChunk(t, mn, start, ctext)
                        THEN Append(acc, ChunkRecord(t, Len(acc), start, end, ctext))
                        ELSE acc
         IN  ChunkLoop(t, mn, mx, ov, NextStart(mn, ov, start, end), out)

\* lines 109-165: the list create_text_chunks returns
CreateTextChunks(t, mn, mx, ov) ==
    IF IsBlank(t) THEN <<>> ELSE ChunkLoop(t, mn, mx, ov, 0, <<>>)

(***************************************************************************)
(* create_text_chunks as a state machine: one action per loop iteration.   *)
(***************************************************************************)
Texts == UNION {[1..n -> Alphabet] : n \in 0..MaxLen}

\* The small parameter sets: min_chunk_size up to MaxMin, max_chunk_size
\* equal to it or one of the two largest sizes, no overlap or MaxOverlap.
Configs ==
    {c \in [mn : 1..MaxMin, mx : 1..MaxChunk, ov : {0, MaxOverlap}] :
        c.mn <= c.mx /\ c.mx \in {c.mn, MaxChunk - 1, MaxChunk}}

\* A text of n characters: "a" everywhere but where a mark <<pos, string>>
\* of marks writes its string (pos is a 0-based position).
Marked(n, marks) ==
    [i \in 1..n |->
        IF \E m \in marks : i - 1 >= m[1] /\ i - 1 < m[1] + Len(m[2])
        THEN LET m == CHOOSE m \in marks :
                         i - 1 >= m[1] /\ i - 1 < m[1] + Len(m[2])
             IN  m[2][i - m[1]]
        ELSE "a"]

\* A text of n characters made of sentences of k characters, each ending
\* with a full stop and a space.
Sentences(n, k) ==
    [i \in 1..n |-> IF i % k = 0 THEN " "
                    ELSE IF i % k = k - 1 THEN "." ELSE "a"]

\* Texts chunked with the parameters of __init__ (lines 38-40).
DefaultTexts ==
    {Marked(n, m) :
        n \in {3, 999, 1000, 1500, 2100, 2500},
        m \in { {},
                {<<0, <<" ">> >>},
                {<<1, <<" ">> >>},
                {<<1400, <<".", " ">> >>},
                {<<1898, <<".", " ">> >>},
                {<<1700, <<" ">> >>, <<1898, <<".", " ">> >>},
                {<<1900, <<".", " ", "!", " ">> >>},
                {<<1900, <<"?", " ", ".", "\n">> >>},
                {<<1500, <<"!", "\n">> >>, <<1900, <<".", " ">> >>},
                {<<1200, <<" ">> >>, <<1990, <<"?", "\n">> >>} }}
    \cup {Sentences(n, k) : n \in {2050, 3750}, k \in {25, 190, 210}}

ChunkStart ==
    /\ \/ /\ text \in Texts
          /\ \E c \in Configs :
               /\ min_chunk_size = c.mn
               /\ max_chunk_size = c.mx
               /\ overlap_size = c.ov
       \/ /\ text \in DefaultTexts
          /\ min_chunk_size = DefaultMinChunkSize
          /\ max_chunk_size = DefaultMaxChunkSize
          /\ overlap_size = DefaultOverlapSize
    /\ cpc = "entry"
    /\ start_pos = 0
    /\ chunk_index = 0
    /\ chunks = <<>>
    /\ iters = <<>>

\* lines 109-116: the blank-text return, or the entry into the loop
ChunkEntry ==
    /\ cpc = "entry"
    /\ cpc' = IF IsBlank(text) THEN "done" ELSE "loop"
    /\ UNCHANGED <<text, min_chunk_size, max_chunk_size, overlap_size,
                   start_pos, chunk_index, chunks, iters>>

\* lines 116-162: one iteration of the while loop
ChunkIter ==
    /\ cpc = "loop"
    /\ start_pos < Len(text)
    /\ LET end0  == TentativeEnd(text, max_chunk_size, start_pos)
           end   == EndPos(text, min_chunk_size, max_chunk_size, start_pos)
           ctext == ChunkText(text, start_pos, end)
           keep  == KeepChunk(text, min_chunk_size, start_pos, ctext)
           next  == NextStart(min_chunk_size, overlap_size, start_pos, end)
       IN  /\ chunks' = IF keep
                          THEN Append(chunks, ChunkRecord(text, chunk_index,
                                                          start_pos, end, ctext))
                          ELSE chunks
           /\ chunk_index' = IF keep THEN chunk_index + 1 ELSE chunk_index
           /\ start_pos' = next
           /\ iters' = Append(iters, [start |-> start_pos, end0 |-> end0,
                                      end |-> end, len |-> Len(ctext),
                                      kept |-> keep])
           /\ cpc' = IF next >= Len(text) THEN "done" ELSE "loop"
    /\ UNCHANGED <<text, min_chunk_size, max_chunk_size, overlap_size>>

(***************************************************************************)
(* EmbeddingService.                                                       *)
(***************************************************************************)
Threads == 1..NumThreads

EmbTexts == {<<>>, <<" ">>, <<"a">>, <<"b">>}
EmbLists == UNION {[1..n -> EmbTexts] : n \in 0..MaxBatch}

\* The lists a thread may pass to generate_embeddings: thread 1 any list of
\* EmbLists, the other threads the lists of at most one entry.
ListsOf(t) == IF t = 1 THEN EmbLists ELSE {xs \in EmbLists : Len(xs) <= 1}

\* line 69: valid_texts = [text for text in texts if text.strip()]
ValidTexts(texts) == SelectSeq(texts, LAMBDA x : ~IsBlank(x))

\* the vector the encoder computes for one text
Embed(x) == [vec |-> x]

\* lines 52, 74: model.encode(list): one vector per entry, in order
Encode(list) == [i \in 1..Len(list) |-> Embed(list[i])]

NoCall == [op |-> "none", arg |-> <<>>]
NoResult == [status |-> "none", value |-> <<>>]

EmbIdle ==
    /\ e_model = 0
    /\ e_lock = 0
    /\ ctor_calls = 0
    /\ ctor_failed = 0
    /\ tpc = [t \in Threads |-> "idle"]
    /\ tcall = [t \in Threads |-> NoCall]
    /\ tmodel = [t \in Threads |-> 0]
    /\ tenc = [t \in Threads |-> <<>>]
    /\ tres = [t \in Threads |-> NoResult]

\* a mutant of the test of line 48: no text is rejected
RejectsText_Never(x) == FALSE

\* line 48: not text.strip()
RejectsText(x) == IsBlank(x)

\* lines 48-51: generate_embedding up to its call of _get_model
CallGenerateEmbedding(t, x) ==
    /\ tpc[t] = "idle"
    /\ tcall' = [tcall EXCEPT ![t] = [op |-> "generate_embedding", arg |-> <<x>>]]
    /\ IF RejectsText(x)
         THEN /\ tpc' = [tpc EXCEPT ![t] = "raised"]
              /\ tres' = [tres EXCEPT ![t] = [status |-> "EmptyInput",
                                              value |-> <<>>]]
         ELSE /\ tpc' = [tpc EXCEPT ![t] = "check1"]
              /\ tres' = tres
    /\ UNCHANGED <<e_model, e_lock, ctor_calls, ctor_failed, tmodel, tenc>>

\* lines 65-73: generate_embeddings up to its call of _get_model
CallGenerateEmbeddings(t, xs) ==
    /\ tpc[t] = "idle"
    /\ tcall' = [tcall EXCEPT ![t] = [op |-> "generate_embeddings", arg |-> xs]]
    /\ IF xs = <<>>
         THEN /\ tpc' = [tpc EXCEPT ![t] = "done"]
              /\ tres' = [tres EXCEPT ![t] = [status |-> "ok", value |-> <<>>]]
         ELSE IF ValidTexts(xs) = <<>>
         THEN /\ tpc' = [tpc EXCEPT ![t] = "raised"]
              /\ tres' = [tres EXCEPT ![t] = [status |-> "AllInputsEmpty",
                                              value |-> <<>>]]
         ELSE /\ tpc' = [tpc EXCEPT ![t] = "check1"]
              /\ tres' = tres
    /\ UNCHANGED <<e_model, e_lock, ctor_calls, ctor_failed, tmodel, tenc>>

\* line 79: get_embedding_dimension up to its call of _get_model
CallGetEmbeddingDimension(t) ==
    /\ tpc[t] = "idle"
    /\ tcall' = [tcall EXCEPT ![t] = [op |-> "get_embedding_dimension",
                                      arg |-> <<>>]]
    /\ tpc' = [tpc EXCEPT ![t] = "check1"]
    /\ UNCHANGED <<e_model, e_lock, ctor_calls, ctor_failed, tmodel, tenc, tres>>

\* a mutant of the inner test: the encoder is built whenever the lock is held
ModelIsNone_Always(m) == TRUE

\* lines 30, 32: self._model is None
ModelIsNone(m) == m = 0

\* line 30: the test outside the lock
GmCheck1(t) ==
    /\ tpc[t] = "check1"
    /\ tpc' = [tpc EXCEPT ![t] = IF e_model = 0 THEN "acquire" ELSE "return"]
    /\ UNCHANGED <<e_model, e_lock, ctor_calls, ctor_failed, tcall, tmodel,
                   tenc, tres>>

\* line 31: with self._lock, entered once the lock is free
GmAcquire(t) ==
    /\ tpc[t] = "acquire"
    /\ e_lock = 0
    /\ e_lock' = t
    /\ tpc' = [tpc EXCEPT ![t] = "check2"]
    /\ UNCHANGED <<e_model, ctor_calls, ctor_failed, tcall, tmodel, tenc, tres>>

\* line 32: the test under the lock
GmCheck2(t) ==
    /\ tpc[t] = "check2"
    /\ tpc' = [tpc EXCEPT ![t] = IF ModelIsNone(e_model) THEN "construct"
                                 ELSE "release"]
    /\ UNCHANGED <<e_model, e_lock, ctor_calls, ctor_failed, tcall, tmodel,
                   tenc, tres>>

\* line 34: SentenceTransformer(self.model_name) is called; while the
\* constructor runs the thread holds the lock and _model is None
GmConstructCall(t) ==
    /\ tpc[t] = "construct"
    /\ ctor_calls' = ctor_calls + 1
    /\ tpc' = [tpc EXCEPT ![t] = "constructing"]
    /\ UNCHANGED <<e_model, e_lock, ctor_failed, tcall, tmodel, tenc, tres>>

\* line 34: the constructor returns and its result is stored. The lock is
\* held, so the call that returns is the last one made.
GmConstruct(t) ==
    /\ tpc[t] = "constructing"
    /\ e_model' = ctor_calls
    /\ tpc' = [tpc EXCEPT ![t] = "release"]
    /\ UNCHANGED <<e_lock, ctor_calls, ctor_failed, tcall, tmodel, tenc, tres>>

\* a mutant of the with statement: the lock stays held when the constructor
\* raises
GmConstructRaises_KeepsLock(t) ==
    /\ tpc[t] = "constructing"
    /\ ctor_failed' = ctor_failed + 1
    /\ tpc' = [tpc EXCEPT ![t] = "raised"]
    /\ tres' = [tres EXCEPT ![t] = [status |-> "EncoderUnavailable",
                                    value |-> <<>>]]
    /\ UNCHANGED <<e_model, e_lock, ctor_calls, tcall, tmodel, tenc>>

\* line 34: the constructor raises; the with statement releases the lock
GmConstructRaises(t) ==
    /\ tpc[t] = "constructing"
    /\ ctor_failed' = ctor_failed + 1
    /\ e_lock' = 0
    /\ tpc' = [tpc EXCEPT ![t] = "raised"]
    /\ tres' = [tres EXCEPT ![t] = [status |-> "EncoderUnavailable",
                                    value |-> <<>>]]
    /\ UNCHANGED <<e_model, ctor_calls, tcall, tmodel, tenc>>

\* line 35-36: the end of the with block
GmRelease(t) ==
    /\ tpc[t] = "release"
    /\ e_lock' = 0
    /\ tpc' = [tpc EXCEPT ![t] = "return"]
    /\ UNCHANGED <<e_model, ctor_calls, ctor_failed, tcall, tmodel, tenc, tres>>

\* line 36: return self._model
GmReturn(t) ==
    /\ tpc[t] = "return"
    /\ tmodel' = [tmodel EXCEPT ![t] = e_model]
    /\ tpc' = [tpc EXCEPT ![t] = "encode"]
    /\ UNCHANGED <<e_model, e_lock, ctor_calls, ctor_failed, tcall, tenc, tres>>

\* a mutant of the list passed to encode: every entry, blank ones included
EncodeInput_Unfiltered(call) == call.arg

\* lines 52, 74: the list the call passes to model.encode
EncodeInput(call) ==
    IF call.op = "generate_embeddings" THEN ValidTexts(call.arg) ELSE call.arg

\* lines 52-53, 74-75, 80: the call uses the encoder and returns
UseModel(t) ==
    /\ tpc[t] = "encode"
    /\ IF tcall[t].op = "get_embedding_dimension"
         THEN /\ tenc' = tenc
              /\ tres' = [tres EXCEPT ![t] = [status |-> "ok", value |-> <<>>]]
         ELSE /\ tenc' = [tenc EXCEPT ![t] = Append(@, EncodeInput(tcall[t]))]
              /\ tres' = [tres EXCEPT ![t] =
                            [status |-> "ok",
                             value |-> Encode(EncodeInput(tcall[t]))]]
    /\ tpc' = [tpc EXCEPT ![t] = "done"]
    /\ UNCHANGED <<e_model, e_lock, ctor_calls, ctor_failed, tcall, tmodel>>

(***************************************************************************)
(* VectorDBService over its store.  A call is one action; the service      *)
(* state it reads and writes is the record                                 *)
(*   [client, collection, exists, gen, records, next_id, model, ctor].     *)
(***************************************************************************)
Categories == {"sensor", "power"}

\* The argument pairs of add_document_chunks: no chunk; one and two chunks
\* with their metadata, among them a repeated text; a blank chunk alone and
\* after a chunk that is not blank; and lists of unequal length.
AddArguments ==
    { << <<>>, <<>> >>,
      << << <<"a">> >>, << [category |-> "sensor"] >> >>,
      << << <<"b">> >>, << [category |-> "power"] >> >>,
      << << <<"a">>, <<"b">> >>,
         << [category |-> "power"], [category |-> "sensor"] >> >>,
      << << <<"b">>, <<"a">> >>,
         << [category |-> "sensor"], [category |-> "sensor"] >> >>,
      << << <<"b">>, <<"b">> >>,
         << [category |-> "sensor"], [category |-> "power"] >> >>,
      << << <<" ">> >>, << [category |-> "sensor"] >> >>,
      << << <<"a">>, <<" ">> >>,
         << [category |-> "sensor"], [category |-> "power"] >> >>,
      << << <<"a">>, <<"b">> >>, << [category |-> "sensor"] >> >>,
      << << <<"a">> >>,
         << [category |-> "sensor"], [category |-> "power"] >> >> }

\* The arguments of the search calls: the query texts, the categories asked
\* for, and the where filters. A filter is a set of <<field, value>> pairs;
\* the empty set is where=None.
Queries == {<<" ">>, <<"a">>, <<"c">>}
QueryCategories == {"sensor", "microcontroller"}
Filters == {{}} \cup {{<<"category", c>>} : c \in QueryCategories}

\* Whether the store is available during a search: it may fail for the
\* searches for one result, and is available for the others.
Availability(n_results) == IF n_results = 1 THEN BOOLEAN ELSE {TRUE}

StoreState ==
    [client |-> v_client, collection |-> v_collection, exists |-> db_exists,
     gen |-> db_gen, records |-> db_records, next_id |-> next_id,
     model |-> e_model, ctor |-> ctor_calls]

\* lines 49-80: _get_collection: the cached handle, else the client is
\* opened and the collection retrieved, or created when the store has none
GetCollection(s) ==
    IF s.collection # 0 THEN s
    ELSE IF s.exists
         THEN [s EXCEPT !.client = 1, !.collection = s.gen]
         ELSE [s EXCEPT !.client = 1, !.exists = TRUE, !.gen = s.gen + 1,
                        !.collection = s.gen + 1]

\* embeddings.py lines 28-36, without contention: the encoder is built on
\* first use
LoadModel(s) ==
    IF s.model # 0 THEN s
    ELSE [s EXCEPT !.model = s.ctor + 1, !.ctor = s.ctor + 1]

\* lines 62-63 and embeddings.py lines 65-75: the embedding function of the
\* collection applied to the documents of an add
EmbedDocuments(s, docs) ==
    IF docs = <<>> THEN [s |-> s, status |-> "ok", value |-> <<>>]
    ELSE IF ValidTexts(docs) = <<>>
    THEN [s |-> s, status |-> "AllInputsEmpty", value |-> <<>>]
    ELSE [s |-> LoadModel(s), status |-> "ok",
          value |-> Encode(ValidTexts(docs))]

\* the handle of s is of the collection the store holds now
HandleLive(s) == s.exists /\ s.collection = s.gen

\* lines 106-110: collection.add. The store takes the records when it is
\* available (ok), the handle is of its current collection and there is one
\* embedding per document.
CollectionAdd(s, docs, metas, ids, ok) ==
    LET e == EmbedDocuments(s, docs)
    IN  IF e.status # "ok" THEN [s |-> e.s, status |-> e.status]
        ELSE IF Len(e.value) # Len(docs)
        THEN [s |-> e.s, status |-> "EmbeddingCountMismatch"]
        ELSE IF ~ok \/ ~HandleLive(e.s)
        THEN [s |-> e.s, status |-> "StoreUnavailable"]
        ELSE [s |-> [e.s EXCEPT !.records =
                        @ \o [i \in 1..Len(docs) |->
                                [id |-> ids[i], text |-> docs[i],
                                 embedding |-> e.value[i],
                                 metadata |-> metas[i],
                                 gen |-> e.s.collection]]],
              status |-> "ok"]

\* a mutant of line 103: the id of a chunk is its position in the list
AddDocumentChunks_PositionIds(s, docs, metas, ok) ==
    IF Len(docs) # Len(metas)
    THEN [s |-> s, status |-> "LengthMismatch", ids |-> <<>>]
    ELSE LET s1  == GetCollection(s)
             ids == [i \in 1..Len(docs) |-> i]
             s2  == [s1 EXCEPT !.next_id = Max2(@, Len(docs))]
             r   == CollectionAdd(s2, docs, metas, ids, ok)
         IN  [s |-> r.s, status |-> r.status,
              ids |-> IF r.status = "ok" THEN ids ELSE <<>>]

\* a mutant of add_document_chunks: blank chunks are left out of the add
AddDocumentChunks_SkipsBlank(s, docs, metas, ok) ==
    LET keep == {i \in 1..Len(docs) : ~IsBlank(docs[i])}
        sel  == [j \in 1..Cardinality(keep) |-> Kth(keep, j)]
        s1   == GetCollection(s)
        ids  == [j \in 1..Len(sel) |-> s1.next_id + j]
        s2   == [s1 EXCEPT !.next_id = @ + Len(sel)]
        r    == CollectionAdd(s2, [j \in 1..Len(sel) |-> docs[sel[j]]],
                              [j \in 1..Len(sel) |-> metas[sel[j]]], ids, ok)
    IN  IF Len(docs) # Len(metas)
        THEN [s |-> s, status |-> "LengthMismatch", ids |-> <<>>]
        ELSE [s |-> r.s, status |-> r.status,
              ids |-> IF r.status = "ok" THEN ids ELSE <<>>]

\* a mutant of add_document_chunks: the lengths are compared only after
\* the collection was opened and the ids were generated
AddDocumentChunks_LateCheck(s, docs, metas, ok) ==
    LET s1  == GetCollection(s)
        s2  == [s1 EXCEPT !.next_id = @ + Len(docs)]
    IN  IF Len(docs) # Len(metas)
        THEN [s |-> s2, status |-> "LengthMismatch", ids |-> <<>>]
        ELSE [s |-> s2, status |-> "ok", ids |-> <<>>]

\* lines 97-116: add_document_chunks
AddDocumentChunks(s, docs, metas, ok) ==
    IF Len(docs) # Len(metas)
    THEN [s |-> s, status |-> "LengthMismatch", ids |-> <<>>]
    ELSE LET s1  == GetCollection(s)
             ids == [i \in 1..Len(docs) |-> s1.next_id + i]
             s2  == [s1 EXCEPT !.next_id = @ + Len(docs)]
             r   == CollectionAdd(s2, docs, metas, ids, ok)
         IN  [s |-> r.s, status |-> r.status,
              ids |-> IF r.status = "ok" THEN ids ELSE <<>>]

\* the metadata md satisfies the where filter w
Matches(md, w) == \A p \in w : p[1] \in DOMAIN md /\ md[p[1]] = p[2]

\* the number the encoder's space gives a one-character text
CharCode(c) ==
    CASE c = "a" -> 1
      [] c = "b" -> 2
      [] c = "c" -> 4
      [] OTHER   -> 7

\* the distance of two embeddings
Distance(u, v) ==
    LET d == CharCode(u.vec[1]) - CharCode(v.vec[1])
    IN  IF d >= 0 THEN d ELSE -d

\* lines 138-142: collection.query for one query text: the query is
\* embedded by the embedding function of the collection, and the n_results
\* nearest records among those whose metadata satisfies where are returned,
\* nearest first, records at the same distance in insertion order.
CollectionQuery(s, q, n_results, where, ok) ==
    LET e == EmbedDocuments(s, <<q>>)
    IN  IF e.status # "ok"
        THEN [s |-> e.s, status |-> e.status, documents |-> <<>>,
              metadatas |-> <<>>, distances |-> <<>>]
        ELSE IF ~ok \/ ~HandleLive(e.s)
        THEN [s |-> e.s, status |-> "StoreUnavailable", documents |-> <<>>,
              metadatas |-> <<>>, distances |-> <<>>]
        ELSE LET recs == e.s.records
                 D(i) == Distance(e.value[1], recs[i].embedding)
                 M == {i \in 1..Len(recs) : Matches(recs[i].metadata, where)}
                 Before(a, b) == D(a) < D(b) \/ (D(a) = D(b) /\ a < b)
                 n == Min2(n_results, Cardinality(M))
                 pick == [j \in 1..n |->
                            CHOOSE i \in M :
                                Cardinality({x \in M : Before(x, i)}) = j - 1]
             IN  [s |-> e.s, status |-> "ok",
                  documents |-> [j \in 1..n |-> recs[pick[j]].text],
                  metadatas |-> [j \in 1..n |-> recs[pick[j]].metadata],
                  distances |-> [j \in 1..n |-> D(pick[j])]]

\* a mutant of search_similar: n_results is not passed on and the query
\* returns every matching record
SearchSimilar_AllResults(s, q, n_results, where, ok) ==
    LET s1 == GetCollection(s)
    IN  CollectionQuery(s1, q, Len(s1.records) + 1, where, ok)

\* lines 135-154: search_similar
SearchSimilar(s, q, n_results, where, ok) ==
    LET s1 == GetCollection(s)
    IN  CollectionQuery(s1, q, n_results, where, ok)

\* a mutant of search_by_category: the filter is not passed on
SearchByCategory_NoFilter(s, q, category, n_results, ok) ==
    SearchSimilar(s, q, n_results, {}, ok)

\* lines 173-174: search_by_category
SearchByCategory(s, q, category, n_results, ok) ==
    SearchSimilar(s, q, n_results, {<<"category", category>>}, ok)

\* lines 176-189: get_collection_stats; an error of count() is returned as
\* {"error": ...}
GetCollectionStats(s, ok) ==
    LET s1 == GetCollection(s)
    IN  IF ~ok \/ ~HandleLive(s1)
        THEN [s |-> s1, status |-> "error", count |-> 0]
        ELSE [s |-> s1, status |-> "ok", count |-> Len(s1.records)]

\* a mutant of delete_collection: the cached handle is kept
DeleteCollection_KeepsHandle(s, ok) ==
    IF ok /\ s.exists
    THEN [s |-> [s EXCEPT !.client = 1, !.exists = FALSE, !.records = <<>>],
          status |-> "ok"]
    ELSE [s |-> [s EXCEPT !.client = 1], status |-> "StoreUnavailable"]

\* lines 191-200: delete_collection; client.delete_collection raises when
\* the store is not available (ok) or holds no such collection, and the
\* handle is then left as it is
DeleteCollection(s, ok) ==
    IF ok /\ s.exists
    THEN [s |-> [s EXCEPT !.client = 1, !.exists = FALSE, !.records = <<>>,
                          !.collection = 0],
          status |-> "ok"]
    ELSE [s |-> [s EXCEPT !.client = 1], status |-> "StoreUnavailable"]

\* the service state s written back to the variables
SetStoreState(s) ==
    /\ v_client' = s.client
    /\ v_collection' = s.collection
    /\ db_exists' = s.exists
    /\ db_gen' = s.gen
    /\ db_records' = s.records
    /\ next_id' = s.next_id
    /\ e_model' = s.model
    /\ ctor_calls' = s.ctor

\* the arguments and the result of a search call; NoFound for other calls
NoFound == [query |-> <<>>, n_results |-> 0, where |-> {}, avail |-> TRUE,
            documents |-> <<>>, metadatas |-> <<>>, distances |-> <<>>]

NoStoreCall == [op |-> "none", status |-> "none", n_docs |-> 0, n_metas |-> 0,
                ids |-> <<>>, count |-> 0, found |-> NoFound]

StoreIdle ==
    /\ v_client = 0
    /\ v_collection = 0
    /\ db_exists = FALSE
    /\ db_gen = 0
    /\ db_records = <<>>
    /\ next_id = 0
    /\ v_calls = 0
    /\ v_last = NoStoreCall
    /\ v_added = 0

\* a call add_document_chunks(docs, metas)
CallAddDocumentChunks(docs, metas, ok) ==
    /\ v_calls < MaxCalls
    /\ next_id + Len(docs) <= MaxIds
    /\ LET r == AddDocumentChunks(StoreState, docs, metas, ok)
       IN  /\ SetStoreState(r.s)
           /\ v_last' = [op |-> "add", status |-> r.status,
                         n_docs |-> Len(docs), n_metas |-> Len(metas),
                         ids |-> r.ids, count |-> 0, found |-> NoFound]
           /\ v_added' = IF r.status = "ok" THEN v_added + Len(docs)
                          ELSE v_added
    /\ v_calls' = v_calls + 1

\* a call get_collection_stats()
CallGetCollectionStats(ok) ==
    /\ v_calls < MaxCalls
    /\ LET r == GetCollectionStats(StoreState, ok)
       IN  /\ SetStoreState(r.s)
           /\ v_last' = [op |-> "stats", status |-> r.status, n_docs |-> 0,
                         n_metas |-> 0, ids |-> <<>>, count |-> r.count,
                         found |-> NoFound]
    /\ v_calls' = v_calls + 1
    /\ UNCHANGED v_added

\* a call search_similar(q, n_results, where)
CallSearchSimilar(q, n_results, where, ok) ==
    /\ v_calls < MaxCalls
    /\ LET r == SearchSimilar(StoreState, q, n_results, where, ok)
       IN  /\ SetStoreState(r.s)
           /\ v_last' = [op |-> "search_similar", status |-> r.status,
                         n_docs |-> 0, n_metas |-> 0, ids |-> <<>>,
                         count |-> 0,
                         found |-> [query |-> q, n_results |-> n_results,
                                    where |-> where, avail |-> ok,
                                    documents |-> r.documents,
                                    metadatas |-> r.metadatas,
                                    distances |-> r.distances]]
    /\ v_calls' = v_calls + 1
    /\ UNCHANGED v_added

\* a call search_by_category(q, category, n_results)
CallSearchByCategory(q, category, n_results, ok) ==
    /\ v_calls < MaxCalls
    /\ LET r == SearchByCategory(StoreState, q, category, n_results, ok)
       IN  /\ SetStoreState(r.s)
           /\ v_last' = [op |-> "search_by_category", status |-> r.status,
                         n_docs |-> 0, n_metas |-> 0, ids |-> <<>>,
                         count |-> 0,
                         found |-> [query |-> q, n_results |-> n_results,
                                    where |-> {<<"category", category>>},
                                    avail |-> ok,
                                    documents |-> r.documents,
                                    metadatas |-> r.metadatas,
                                    distances |-> r.distances]]
    /\ v_calls' = v_calls + 1
    /\ UNCHANGED v_added

\* a call delete_collection()
CallDeleteCollection(ok) ==
    /\ v_calls < MaxCalls
    /\ LET r == DeleteCollection(StoreState, ok)
       IN  /\ SetStoreState(r.s)
           /\ v_last' = [op |-> "delete", status |-> r.status, n_docs |-> 0,
                         n_metas |-> 0, ids |-> <<>>, count |-> 0,
                         found |-> NoFound]
           /\ v_added' = IF r.status = "ok" THEN 0 ELSE v_added
    /\ v_calls' = v_calls + 1

(***************************************************************************)
(* DatasheetIngestionService: clean_text, ingest_datasheet and             *)
(* batch_ingest_datasheets.                                                *)
(***************************************************************************)

\* line 80, 90: re.sub(r'\s+', ' ', text)
CollapseWhitespace(s) ==
    LET keep == {i \in 1..Len(s) :
                    s[i] \notin Whitespace \/ i = 1 \/ s[i - 1] \notin Whitespace}
    IN  [j \in 1..Cardinality(keep) |->
            IF s[Kth(keep, j)] \in Whitespace THEN " " ELSE s[Kth(keep, j)]]

\* line 84: a match of www\.[^\s]+ starts at index i of s
UrlAt(s, i) ==
    /\ i + 4 <= Len(s)
    /\ SubSeq(s, i, i + 3) = <<"w", "w", "w", ".">>
    /\ s[i + 4] \notin Whitespace

\* the first index from j on that holds whitespace, or Len(s) + 1
RECURSIVE RunEnd(_, _)
RunEnd(s, j) ==
    IF j > Len(s) \/ s[j] \in Whitespace THEN j ELSE RunEnd(s, j + 1)

\* line 84: re.sub(r'www\.[^\s]+', '', text), from index i on
RECURSIVE RemoveUrlsFrom(_, _)
RemoveUrlsFrom(s, i) ==
    IF i > Len(s) THEN <<>>
    ELSE IF UrlAt(s, i) THEN RemoveUrlsFrom(s, RunEnd(s, i + 4))
    ELSE <<s[i]>> \o RemoveUrlsFrom(s, i + 1)

\* line 87: the characters \w matches, a str pattern: "_" and every
\* character for which str.isalnum() holds, here those up to code point 255
WordChars ==
    {"a", "b", "c", "d", "e", "f", "g", "h", "i", "j", "k", "l", "m", "n",
     "o", "p", "q", "r", "s", "t", "u", "v", "w", "x", "y", "z", "_", "0",
     "1", "2", "3", "4", "5", "6", "7", "8", "9", "A", "B", "C", "D", "E",
     "F", "G", "H", "I", "J", "K", "L", "M", "N", "O", "P", "Q", "R", "S",
     "T", "U", "V", "W", "X", "Y", "Z", "ª", "²", "³", "µ", "¹", "º", "¼",
     "½", "¾", "À", "Á", "Â", "Ã", "Ä", "Å", "Æ", "Ç", "È", "É", "Ê", "Ë",
     "Ì", "Í", "Î", "Ï", "Ð", "Ñ", "Ò", "Ó", "Ô", "Õ", "Ö", "Ø", "Ù", "Ú",
     "Û", "Ü", "Ý", "Þ", "ß", "à", "á", "â", "ã", "ä", "å", "æ", "ç", "è",
     "é", "ê", "ë", "ì", "í", "î", "ï", "ð", "ñ", "ò", "ó", "ô", "õ", "ö",
     "ø", "ù", "ú", "û", "ü", "ý", "þ", "ÿ"}

KeptPunctuation ==
    {".", ",", ";", ":", "!", "?", "-", "(", ")", "[", "]", "/", "+", "=",
     "<", ">", "@", "#", "$", "%", "^", "&", "*"}

\* line 87: every character outside the allowed set becomes a space
ReplaceDisallowed(s) ==
    [i \in 1..Len(s) |->
        IF s[i] \in WordChars \cup Whitespace \cup KeptPunctuation
        THEN s[i] ELSE " "]

\* lines 80-92: clean_text. The substitution of line 83 needs a newline to
\* match, and line 80 has replaced every newline, so it changes nothing.
CleanText(s) ==
    Strip(CollapseWhitespace(ReplaceDisallowed(
        RemoveUrlsFrom(CollapseWhitespace(s), 1))))

\* what can be at a path: nothing, a file that exists and can be opened but
\* cannot be read as a PDF, or a PDF with the text raw
NoFile == [kind |-> "missing", raw |-> <<>>]
BadFile == [kind |-> "unreadable", raw |-> <<>>]
RawTexts ==
    { <<" ", "\r", "">>,
      <<"A", "\r", "\n", "b">>,
      <<"w", "w", "w", ".", "a", " ", "b", "~">>,
      <<"~", " ", "w", "w", "w", ".", "a">>,
      <<"a", "a", ".", " ", "b", "b", ".", " ", "c", "c">> }
Docs == {NoFile, BadFile} \cup {[kind |-> "pdf", raw |-> r] : r \in RawTexts}

FilePaths == {"d/p1", "p2"}
ConfigPaths == FilePaths \cup {""}

\* lines 227-237: _calculate_file_hash. Only a path that cannot be opened
\* gives "unknown" (line 237); every file that can be opened, a PDF or not,
\* gives the digest of its content (line 234), written here as the content
\* itself under the tag "sha256".
FileHash(doc) ==
    IF doc.kind = "missing" THEN <<"unknown">>
    ELSE <<"sha256", doc.kind>> \o doc.raw

\* lines 52-67: extract_text_from_pdf on a readable file
ExtractText(doc) == IF IsBlank(doc.raw) THEN <<>> ELSE doc.raw

\* line 194: os.path.basename(pdf_path), for the paths of ConfigPaths
Basename(path) == IF path = "d/p1" THEN "p1" ELSE path

\* component_info.get(key, default)
Get(info, key, default) == IF key \in DOMAIN info THEN info[key] ELSE default

\* a mutant of line 202: the hash is computed for each chunk, from the file
\* and the index of the chunk
ChunkMetadata_HashPerChunk(path, doc, info, c) ==
    [source_file |-> Basename(path), source_path |-> path,
     mpn |-> Get(info, "mpn", "unknown"),
     manufacturer |-> Get(info, "manufacturer", "unknown"),
     category |-> Get(info, "category", "unknown"),
     description |-> Get(info, "description", ""),
     datasheet_url |-> Get(info, "datasheet_url", ""),
     ingestion_timestamp |-> Get(info, "timestamp", ""),
     file_hash |-> Append(FileHash(doc), c.chunk_index),
     chunk_index |-> c.chunk_index,
     chunk_start |-> c.chunk_start, chunk_end |-> c.chunk_end,
     chunk_length |-> c.chunk_length,
     total_text_length |-> c.total_text_length]

\* lines 193-203 and 139-146: the metadata of one chunk of a document
ChunkMetadata(path, doc, info, c) ==
    [source_file |-> Basename(path), source_path |-> path,
     mpn |-> Get(info, "mpn", "unknown"),
     manufacturer |-> Get(info, "manufacturer", "unknown"),
     category |-> Get(info, "category", "unknown"),
     description |-> Get(info, "description", ""),
     datasheet_url |-> Get(info, "datasheet_url", ""),
     ingestion_timestamp |-> Get(info, "timestamp", ""),
     file_hash |-> FileHash(doc), chunk_index |-> c.chunk_index,
     chunk_start |-> c.chunk_start, chunk_end |-> c.chunk_end,
     chunk_length |-> c.chunk_length,
     total_text_length |-> c.total_text_length]

\* a mutant of line 218: the add_document_chunks call is left out and the
\* call returns no ids
AddChunks_NoCall(s, docs, metas, ok) ==
    [s |-> s, status |-> "ok", ids |-> <<>>, adds |-> <<>>]

\* lines 213-221: the chunk texts and their metadata are passed to one
\* add_document_chunks call, whose ids are returned; adds is the list of
\* the add_document_chunks calls made, with their arguments and outcome
AddChunks(s, docs, metas, ok) ==
    LET r == AddDocumentChunks(s, docs, metas, ok)
    IN  [s |-> r.s, status |-> r.status, ids |-> r.ids,
         adds |-> << [docs |-> docs, metas |-> metas, status |-> r.status,
                      ids |-> r.ids, avail |-> ok] >>]

\* a mutant of ingest_datasheet: the collection is opened as soon as the
\* file has been read
IngestDatasheet_EagerStore(s, cfg, path, doc, info, ok) ==
    IF doc.kind # "pdf"
    THEN [s |-> s, status |-> "SourceUnreadable", ids |-> <<>>, adds |-> <<>>]
    ELSE IF ExtractText(doc) = <<>>
    THEN [s |-> GetCollection(s), status |-> "ok", ids |-> <<>>,
          adds |-> <<>>]
    ELSE LET cs == CreateTextChunks(CleanText(ExtractText(doc)),
                                    cfg.mn, cfg.mx, cfg.ov)
         IN  IF cs = <<>>
             THEN [s |-> GetCollection(s), status |-> "ok", ids |-> <<>>,
                   adds |-> <<>>]
             ELSE AddChunks(
                      s,
                      [i \in 1..Len(cs) |-> cs[i].text],
                      [i \in 1..Len(cs) |-> ChunkMetadata(path, doc, info, cs[i])],
                      ok)

\* lines 182-225: ingest_datasheet on the service state s with the chunking
\* parameters cfg; ok says whether the store is available
IngestDatasheet(s, cfg, path, doc, info, ok) ==
    IF doc.kind # "pdf"
    THEN [s |-> s, status |-> "SourceUnreadable", ids |-> <<>>, adds |-> <<>>]
    ELSE IF ExtractText(doc) = <<>>
    THEN [s |-> s, status |-> "ok", ids |-> <<>>, adds |-> <<>>]
    ELSE LET cs == CreateTextChunks(CleanText(ExtractText(doc)),
                                    cfg.mn, cfg.mx, cfg.ov)
         IN  IF cs = <<>>
             THEN [s |-> s, status |-> "ok", ids |-> <<>>, adds |-> <<>>]
             ELSE AddChunks(
                      s,
                      [i \in 1..Len(cs) |-> cs[i].text],
                      [i \in 1..Len(cs) |-> ChunkMetadata(path, doc, info, cs[i])],
                      ok)

\* a mutant of the except clause: the error of ingest_datasheet leaves
\* batch_ingest_datasheets
OnIngestError_Propagate(results, path) ==
    [raised |-> TRUE, results |-> results]

\* lines 266-268: the except clause of batch_ingest_datasheets
OnIngestError(results, path) ==
    [raised |-> FALSE, results |-> (path :> <<>>) @@ results]

\* line 258: not pdf_path or not os.path.exists(pdf_path)
PathMissing(files, path) == path = "" \/ files[path].kind = "missing"

\* the component_info of the entry for a path: every field the metadata
\* reads for the first path, the mpn alone for the others
ComponentInfo(path) ==
    IF path = "d/p1"
    THEN [mpn |-> "m1", manufacturer |-> "acme", category |-> "sensor",
          description |-> "d1", datasheet_url |-> "u1", timestamp |-> "t1"]
    ELSE [mpn |-> path]
ConfigOf(path) == [pdf_path |-> path, component_info |-> ComponentInfo(path)]
ConfigLists ==
    UNION {[1..n -> {ConfigOf(q) : q \in ConfigPaths}] : n \in 0..MaxConfigs}

BatchConfigs ==
    {[mn |-> DefaultMinChunkSize, mx |-> DefaultMaxChunkSize,
      ov |-> DefaultOverlapSize],
     [mn |-> 2, mx |-> 4, ov |-> 1]}

BatchStart ==
    /\ fs \in [FilePaths -> Docs]
    /\ b_configs \in ConfigLists
    /\ b_pos = 0
    /\ b_results = <<>>
    /\ b_log = <<>>
    /\ b_pc = "loop"

BatchIdle ==
    /\ fs = [q \in FilePaths |-> NoFile]
    /\ b_configs = <<>>
    /\ b_pos = 0
    /\ b_results = <<>>
    /\ b_log = <<>>
    /\ b_pc = "done"

\* lines 254-268: one pass of the for loop
BatchEntry(ok) ==
    /\ b_pc = "loop"
    /\ b_pos < Len(b_configs)
    /\ LET path == b_configs[b_pos + 1].pdf_path
           info == b_configs[b_pos + 1].component_info
           cfg  == [mn |-> min_chunk_size, mx |-> max_chunk_size,
                    ov |-> overlap_size]
       IN  IF PathMissing(fs, path)
           THEN /\ b_results' = (path :> <<>>) @@ b_results
                /\ b_log' = Append(b_log, [path |-> path, called |-> FALSE,
                                           status |-> "missing", ids |-> <<>>,
                                           adds |-> <<>>])
                /\ b_pc' = "loop"
                /\ UNCHANGED <<v_client, v_collection, db_exists, db_gen,
                               db_records, next_id, e_model, ctor_calls,
                               v_added>>
           ELSE LET r == IngestDatasheet(StoreState, cfg, path, fs[path],
                                         info, ok)
                    e == OnIngestError(b_results, path)
                IN  /\ SetStoreState(r.s)
                    /\ v_added' = v_added + Len(r.ids)
                    /\ b_log' = Append(b_log, [path |-> path, called |-> TRUE,
                                               status |-> r.status,
                                               ids |-> r.ids,
                                               adds |-> r.adds])
                    /\ IF r.status = "ok"
                         THEN /\ b_results' = (path :> r.ids) @@ b_results
                              /\ b_pc' = "loop"
                         ELSE /\ b_results' = e.results
                              /\ b_pc' = IF e.raised THEN "raised" ELSE "loop"
    /\ b_pos' = b_pos + 1
    /\ UNCHANGED <<fs, b_configs, v_calls, v_last>>

\* line 270: return results
BatchReturn ==
    /\ b_pc = "loop"
    /\ b_pos = Len(b_configs)
    /\ b_pc' = "done"
    /\ UNCHANGED <<fs, b_configs, b_pos, b_results, b_log, storeVars,
                   e_model, ctor_calls>>

(***************************************************************************)
(* First calls made by several threads of one process.  The module globals *)
(* _embedding_service (get_embedding_service) and _vector_db_service       *)
(* (get_vector_db_service) and the VectorDBService fields _client and      *)
(* _collection (_get_client, _get_collection) are read and written without *)
(* a lock, so a thread may be preempted between any two of the steps       *)
(* below.  Only EmbeddingService._model is guarded, by the lock of its     *)
(* instance.                                                               *)
(***************************************************************************)
FirstOps == {"get_embedding_service", "add", "search", "stats"}

\* the arguments of the first calls
FirstText == <<"a">>
FirstDocs == << FirstText >>
FirstMetas == << [category |-> "sensor"] >>

NoHandle == [gen |-> 0, svc |-> 0]
NoValue == [ids |-> <<>>, documents |-> <<>>, count |-> 0]

svcVars == <<g_service, svc_models, svc_locks>>
vdbVars == <<g_vdb, vdb_client, vdb_collection>>
dbVars == <<db_exists, db_gen, db_records, next_id>>
ctorVars == <<ctor_calls, ctor_failed>>

\* embeddings.py line 84 and vector_db.py line 204: both globals are None
\* when the process starts, and no thread has made a call
FirstIdle ==
    /\ g_service = 0
    /\ svc_models = <<>>
    /\ svc_locks = <<>>
    /\ g_vdb = 0
    /\ vdb_client = <<>>
    /\ vdb_collection = <<>>
    /\ fpc = [t \in Threads |-> "idle"]
    /\ fop = [t \in Threads |-> "none"]
    /\ fvdb = [t \in Threads |-> 0]
    /\ fsvc = [t \in Threads |-> 0]
    /\ fh = [t \in Threads |-> NoHandle]
    /\ fnew = [t \in Threads |-> NoHandle]
    /\ fmodel = [t \in Threads |-> 0]
    /\ fctor = [t \in Threads |-> 0]
    /\ fres = [t \in Threads |-> "none"]
    /\ fval = [t \in Threads |-> NoValue]

\* thread t moves on to the position pc
Goto(t, pc) == fpc' = [fpc EXCEPT ![t] = pc]

\* a thread calls get_embedding_service() and then generate_embedding on
\* the instance it got, or calls get_vector_db_service() (as
\* datasheet_ingestion.py line 217 does) and makes its first
\* add_document_chunks, search_similar or get_collection_stats call on the
\* instance it got
FirstCall(t, op) ==
    /\ fpc[t] = "idle"
    /\ fop' = [fop EXCEPT ![t] = op]
    /\ Goto(t, IF op = "get_embedding_service" THEN "ges_check" ELSE "vdb_check")
    /\ UNCHANGED <<svcVars, vdbVars, dbVars, ctorVars, fvdb, fsvc, fh, fnew,
                   fmodel, fctor, fres, fval>>

\* vector_db.py line 210: if _vector_db_service is None
VdbCheck(t) ==
    /\ fpc[t] = "vdb_check"
    /\ Goto(t, IF g_vdb = 0 THEN "vdb_make" ELSE "vdb_return")
    /\ UNCHANGED <<svcVars, vdbVars, dbVars, ctorVars, fop, fvdb, fsvc, fh,
                   fnew, fmodel, fctor, fres, fval>>

\* vector_db.py line 211: _vector_db_service = VectorDBService(); the new
\* instance has no client and no collection handle yet (lines 29-30)
VdbMake(t) ==
    /\ fpc[t] = "vdb_make"
    /\ vdb_client' = Append(vdb_client, 0)
    /\ vdb_collection' = Append(vdb_collection, NoHandle)
    /\ g_vdb' = Len(vdb_client) + 1
    /\ Goto(t, "vdb_return")
    /\ UNCHANGED <<svcVars, dbVars, ctorVars, fop, fvdb, fsvc, fh, fnew,
                   fmodel, fctor, fres, fval>>

\* vector_db.py line 212: return _vector_db_service; the call of the thread
\* then enters _get_collection of that instance (lines 100, 135, 178)
VdbReturn(t) ==
    /\ fpc[t] = "vdb_return"
    /\ fvdb' = [fvdb EXCEPT ![t] = g_vdb]
    /\ Goto(t, "fc_check")
    /\ UNCHANGED <<svcVars, vdbVars, dbVars, ctorVars, fop, fsvc, fh, fnew,
                   fmodel, fctor, fres, fval>>

\* vector_db.py line 51: if self._collection is None
FcCheck(t) ==
    /\ fpc[t] = "fc_check"
    /\ Goto(t, IF vdb_collection[fvdb[t]] = NoHandle THEN "client_check"
               ELSE "fc_return")
    /\ UNCHANGED <<svcVars, vdbVars, dbVars, ctorVars, fop, fvdb, fsvc, fh,
                   fnew, fmodel, fctor, fres, fval>>

\* vector_db.py line 38: if self._client is None
ClientCheck(t) ==
    /\ fpc[t] = "client_check"
    /\ Goto(t, IF vdb_client[fvdb[t]] = 0 THEN "client_make" ELSE "ges_check")
    /\ UNCHANGED <<svcVars, vdbVars, dbVars, ctorVars, fop, fvdb, fsvc, fh,
                   fnew, fmodel, fctor, fres, fval>>

\* vector_db.py lines 40-47: the client is opened and stored; the clients
\* of one directory are not told apart
ClientMake(t) ==
    /\ fpc[t] = "client_make"
    /\ vdb_client' = [vdb_client EXCEPT ![fvdb[t]] = 1]
    /\ Goto(t, "ges_check")
    /\ UNCHANGED <<svcVars, g_vdb, vdb_collection, dbVars, ctorVars, fop,
                   fvdb, fsvc, fh, fnew, fmodel, fctor, fres, fval>>

\* embeddings.py line 90: if _embedding_service is None
GesCheck(t) ==
    /\ fpc[t] = "ges_check"
    /\ Goto(t, IF g_service = 0 THEN "ges_make" ELSE "ges_return")
    /\ UNCHANGED <<svcVars, vdbVars, dbVars, ctorVars, fop, fvdb, fsvc, fh,
                   fnew, fmodel, fctor, fres, fval>>

\* embeddings.py line 91: _embedding_service = EmbeddingService(); the new
\* instance has no encoder yet and a free lock of its own (lines 25-26)
GesMake(t) ==
    /\ fpc[t] = "ges_make"
    /\ svc_models' = Append(svc_models, 0)
    /\ svc_locks' = Append(svc_locks, 0)
    /\ g_service' = Len(svc_models) + 1
    /\ Goto(t, "ges_return")
    /\ UNCHANGED <<vdbVars, dbVars, ctorVars, fop, fvdb, fsvc, fh, fnew,
                   fmodel, fctor, fres, fval>>

\* embeddings.py line 92: return _embedding_service
GesReturn(t) ==
    /\ fpc[t] = "ges_return"
    /\ fsvc' = [fsvc EXCEPT ![t] = g_service]
    /\ Goto(t, IF fop[t] = "get_embedding_service" THEN "use" ELSE "try_get")
    /\ UNCHANGED <<svcVars, vdbVars, dbVars, ctorVars, fop, fvdb, fh, fnew,
                   fmodel, fctor, fres, fval>>

\* embeddings.py lines 48-51: the thread calls generate_embedding(FirstText)
\* on the instance it got; the text is not blank, so the call goes on to
\* _get_model
SvcUse(t) ==
    /\ fpc[t] = "use"
    /\ Goto(t, IF RejectsText(FirstText) THEN "raised" ELSE "gm_check1")
    /\ fres' = [fres EXCEPT ![t] = IF RejectsText(FirstText) THEN "EmptyInput"
                                   ELSE @]
    /\ UNCHANGED <<svcVars, vdbVars, dbVars, ctorVars, fop, fvdb, fsvc, fh,
                   fnew, fmodel, fctor, fval>>

\* vector_db.py lines 65-72: client.get_collection returns a handle when the
\* store holds the collection and raises when it does not; the embedding
\* function of the handle calls the instance the thread got at line 55
TryGet(t) ==
    /\ fpc[t] = "try_get"
    /\ IF db_exists
         THEN /\ vdb_collection' = [vdb_collection EXCEPT ![fvdb[t]] =
                                       [gen |-> db_gen, svc |-> fsvc[t]]]
              /\ Goto(t, "fc_return")
         ELSE /\ Goto(t, "create")
              /\ UNCHANGED vdb_collection
    /\ UNCHANGED <<svcVars, g_vdb, vdb_client, dbVars, ctorVars, fop, fvdb,
                   fsvc, fh, fnew, fmodel, fctor, fres, fval>>

\* vector_db.py lines 73-77, the call: client.create_collection creates the
\* collection in the store and returns its handle to the thread, and raises
\* when the store holds a collection of that name; the error leaves
\* _get_collection and the call that made it. self._collection is not
\* assigned yet.
Create(t) ==
    /\ fpc[t] = "create"
    /\ IF db_exists
         THEN /\ fres' = [fres EXCEPT ![t] = "CollectionExists"]
              /\ Goto(t, "raised")
              /\ UNCHANGED <<db_exists, db_gen, fnew>>
         ELSE /\ db_exists' = TRUE
              /\ db_gen' = db_gen + 1
              /\ fnew' = [fnew EXCEPT ![t] =
                             [gen |-> db_gen + 1, svc |-> fsvc[t]]]
              /\ Goto(t, "create_assign")
              /\ fres' = fres
    /\ UNCHANGED <<svcVars, vdbVars, db_records, next_id, ctorVars, fop, fvdb,
                   fsvc, fh, fmodel, fctor, fval>>

\* vector_db.py line 73, the assignment: self._collection = the handle
\* create_collection returned, whatever another thread stored there since
CreateAssign(t) ==
    /\ fpc[t] = "create_assign"
    /\ vdb_collection' = [vdb_collection EXCEPT ![fvdb[t]] = fnew[t]]
    /\ Goto(t, "fc_return")
    /\ UNCHANGED <<svcVars, g_vdb, vdb_client, dbVars, ctorVars, fop, fvdb,
                   fsvc, fh, fnew, fmodel, fctor, fres, fval>>

\* vector_db.py line 80: return self._collection
FcReturn(t) ==
    /\ fpc[t] = "fc_return"
    /\ fh' = [fh EXCEPT ![t] = vdb_collection[fvdb[t]]]
    /\ Goto(t, "op")
    /\ UNCHANGED <<svcVars, vdbVars, dbVars, ctorVars, fop, fvdb, fsvc, fnew,
                   fmodel, fctor, fres, fval>>

\* the call of thread t, back from _get_collection, up to the point where it
\* next touches state other threads share. add_document_chunks: the ids of
\* line 103, then collection.add (line 106) hands the documents to the
\* embedding function, which enters generate_embeddings (embeddings.py lines
\* 65-73) and goes on to _get_model. search_similar: collection.query (line
\* 138) hands the query to the embedding function in the same way.
\* get_collection_stats: the call stands before collection.count (line 181).
FirstOp(t) ==
    /\ fpc[t] = "op"
    /\ IF fop[t] = "add"
         THEN /\ next_id' = next_id + Len(FirstDocs)
              /\ fval' = [fval EXCEPT ![t].ids =
                            [i \in 1..Len(FirstDocs) |-> next_id + i]]
         ELSE UNCHANGED <<next_id, fval>>
    /\ Goto(t, IF fop[t] = "stats" THEN "store" ELSE "gm_check1")
    /\ UNCHANGED <<svcVars, vdbVars, db_exists, db_gen, db_records,
                   ctorVars, fop, fvdb, fsvc, fh, fnew, fmodel, fctor, fres>>

\* the EmbeddingService instance whose _get_model thread t runs: the one it
\* got itself, or the one the embedding function of its handle calls
SvcOf(t) == IF fop[t] = "get_embedding_service" THEN fsvc[t] ELSE fh[t].svc

\* embeddings.py line 30: the test outside the lock
SvcCheck1(t) ==
    /\ fpc[t] = "gm_check1"
    /\ Goto(t, IF ModelIsNone(svc_models[SvcOf(t)]) THEN "gm_acquire"
               ELSE "gm_return")
    /\ UNCHANGED <<svcVars, vdbVars, dbVars, ctorVars, fop, fvdb, fsvc, fh,
                   fnew, fmodel, fctor, fres, fval>>

\* embeddings.py line 31: with self._lock, entered once the lock of the
\* instance is free; until then the thread waits here
SvcAcquire(t) ==
    /\ fpc[t] = "gm_acquire"
    /\ svc_locks[SvcOf(t)] = 0
    /\ svc_locks' = [svc_locks EXCEPT ![SvcOf(t)] = t]
    /\ Goto(t, "gm_check2")
    /\ UNCHANGED <<g_service, svc_models, vdbVars, dbVars, ctorVars, fop,
                   fvdb, fsvc, fh, fnew, fmodel, fctor, fres, fval>>

\* embeddings.py line 32: the test under the lock
SvcCheck2(t) ==
    /\ fpc[t] = "gm_check2"
    /\ Goto(t, IF ModelIsNone(svc_models[SvcOf(t)]) THEN "gm_construct"
               ELSE "gm_release")
    /\ UNCHANGED <<svcVars, vdbVars, dbVars, ctorVars, fop, fvdb, fsvc, fh,
                   fnew, fmodel, fctor, fres, fval>>

\* embeddings.py line 34: SentenceTransformer(self.model_name) is called;
\* while the constructor runs the thread holds the lock and _model is None
SvcConstructCall(t) ==
    /\ fpc[t] = "gm_construct"
    /\ ctor_calls' = ctor_calls + 1
    /\ fctor' = [fctor EXCEPT ![t] = ctor_calls + 1]
    /\ Goto(t, "gm_in_ctor")
    /\ UNCHANGED <<svcVars, vdbVars, dbVars, ctor_failed, fop, fvdb, fsvc,
                   fh, fnew, fmodel, fres, fval>>

\* embeddings.py line 34: the constructor returns and its result is stored
SvcConstruct(t) ==
    /\ fpc[t] = "gm_in_ctor"
    /\ svc_models' = [svc_models EXCEPT ![SvcOf(t)] = fctor[t]]
    /\ Goto(t, "gm_release")
    /\ UNCHANGED <<g_service, svc_locks, vdbVars, dbVars, ctorVars, fop,
                   fvdb, fsvc, fh, fnew, fmodel, fctor, fres, fval>>

\* embeddings.py line 34: the constructor raises; the with statement
\* releases the lock and the error leaves the call of the thread
SvcConstructRaises(t) ==
    /\ fpc[t] = "gm_in_ctor"
    /\ ctor_failed' = ctor_failed + 1
    /\ svc_locks' = [svc_locks EXCEPT ![SvcOf(t)] = 0]
    /\ fres' = [fres EXCEPT ![t] = "EncoderUnavailable"]
    /\ fval' = [fval EXCEPT ![t] = NoValue]
    /\ Goto(t, "raised")
    /\ UNCHANGED <<g_service, svc_models, vdbVars, dbVars, ctor_calls, fop,
                   fvdb, fsvc, fh, fnew, fmodel, fctor>>

\* embeddings.py lines 35-36: the end of the with block
SvcRelease(t) ==
    /\ fpc[t] = "gm_release"
    /\ svc_locks' = [svc_locks EXCEPT ![SvcOf(t)] = 0]
    /\ Goto(t, "gm_return")
    /\ UNCHANGED <<g_service, svc_models, vdbVars, dbVars, ctorVars, fop,
                   fvdb, fsvc, fh, fnew, fmodel, fctor, fres, fval>>

\* embeddings.py line 36: return self._model
SvcReturn(t) ==
    /\ fpc[t] = "gm_return"
    /\ fmodel' = [fmodel EXCEPT ![t] = svc_models[SvcOf(t)]]
    /\ Goto(t, "encode")
    /\ UNCHANGED <<svcVars, vdbVars, dbVars, ctorVars, fop, fvdb, fsvc, fh,
                   fnew, fctor, fres, fval>>

\* embeddings.py lines 52-53, 74-75: the encoder the thread holds computes
\* the embeddings. generate_embedding returns them to the thread; the
\* embedding function returns them to collection.add or collection.query,
\* which has not touched the store yet
SvcEncode(t) ==
    /\ fpc[t] = "encode"
    /\ IF fop[t] = "get_embedding_service"
         THEN /\ fres' = [fres EXCEPT ![t] = "ok"]
              /\ Goto(t, "done")
         ELSE /\ fres' = fres
              /\ Goto(t, "store")
    /\ UNCHANGED <<svcVars, vdbVars, dbVars, ctorVars, fop, fvdb, fsvc, fh,
                   fnew, fmodel, fctor, fval>>

\* the state the store step of thread t works on: the store, the handle the
\* thread holds and the encoder _get_model returned to it
HandleState(t) ==
    [StoreState EXCEPT !.collection = fh[t].gen,
                       !.model = fmodel[t],
                       !.ctor = ctor_calls]

\* vector_db.py lines 106-116, 138-154, 181-189: the store takes the records
\* of the add, answers the query or counts, or fails when it is not
\* available (ok); an error of count is returned, the others are raised
FirstStore(t, ok) ==
    /\ fpc[t] = "store"
    /\ LET s == HandleState(t)
       IN  CASE fop[t] = "add" ->
                  LET r == CollectionAdd(s, FirstDocs, FirstMetas,
                                         fval[t].ids, ok)
                  IN  /\ db_records' = r.s.records
                      /\ fres' = [fres EXCEPT ![t] = r.status]
                      /\ fval' = [fval EXCEPT ![t].ids =
                                    IF r.status = "ok" THEN @ ELSE <<>>]
                      /\ Goto(t, IF r.status = "ok" THEN "done" ELSE "raised")
             [] fop[t] = "search" ->
                  LET r == CollectionQuery(s, FirstText, 1, {}, ok)
                  IN  /\ db_records' = db_records
                      /\ fres' = [fres EXCEPT ![t] = r.status]
                      /\ fval' = [fval EXCEPT ![t].documents = r.documents]
                      /\ Goto(t, IF r.status = "ok" THEN "done" ELSE "raised")
             [] OTHER ->
                  LET r == GetCollectionStats(s, ok)
                  IN  /\ db_records' = db_records
                      /\ fres' = [fres EXCEPT ![t] = r.status]
                      /\ fval' = [fval EXCEPT ![t].count = r.count]
                      /\ Goto(t, "done")
    /\ UNCHANGED <<svcVars, vdbVars, db_exists, db_gen, next_id, ctorVars,
                   fop, fvdb, fsvc, fh, fnew, fmodel, fctor>>

(***************************************************************************)
(* Values of the variables of a component that a specification leaves      *)
(* alone.                                                                  *)
(***************************************************************************)
ChunkIdle ==
    /\ text = <<>>
    /\ min_chunk_size = DefaultMinChunkSize
    /\ max_chunk_size = DefaultMaxChunkSize
    /\ overlap_size = DefaultOverlapSize
    /\ cpc = "done"
    /\ start_pos = 0
    /\ chunk_index = 0
    /\ chunks = <<>>
    /\ iters = <<>>

(***************************************************************************)
(* The specification of create_text_chunks.                                *)
(***************************************************************************)
ChunkInit == ChunkStart /\ EmbIdle /\ StoreIdle /\ BatchIdle /\ FirstIdle

ChunkNext ==
    \/ ChunkEntry /\ UNCHANGED <<embVars, storeVars, batchVars, firstVars>>
    \/ ChunkIter /\ UNCHANGED <<embVars, storeVars, batchVars, firstVars>>

SpecChunk == ChunkInit /\ [][ChunkNext]_vars

(***************************************************************************)
(* The specification of EmbeddingService: NumThreads threads, each making  *)
(* one call on the same instance.                                          *)
(***************************************************************************)
EmbInit == EmbIdle /\ ChunkIdle /\ StoreIdle /\ BatchIdle /\ FirstIdle

EmbNext ==
    \E t \in Threads :
        \/ \E x \in EmbTexts : CallGenerateEmbedding(t, x) /\ UNCHANGED <<chunkVars, storeVars, batchVars, firstVars>>
        \/ \E xs \in ListsOf(t) : CallGenerateEmbeddings(t, xs) /\ UNCHANGED <<chunkVars, storeVars, batchVars, firstVars>>
        \/ CallGetEmbeddingDimension(t) /\ UNCHANGED <<chunkVars, storeVars, batchVars, firstVars>>
        \/ GmCheck1(t) /\ UNCHANGED <<chunkVars, storeVars, batchVars, firstVars>>
        \/ GmAcquire(t) /\ UNCHANGED <<chunkVars, storeVars, batchVars, firstVars>>
        \/ GmCheck2(t) /\ UNCHANGED <<chunkVars, storeVars, batchVars, firstVars>>
        \/ GmConstructCall(t) /\ UNCHANGED <<chunkVars, storeVars, batchVars, firstVars>>
        \/ GmConstruct(t) /\ UNCHANGED <<chunkVars, storeVars, batchVars, firstVars>>
        \/ GmConstructRaises(t) /\ UNCHANGED <<chunkVars, storeVars, batchVars, firstVars>>
        \/ GmRelease(t) /\ UNCHANGED <<chunkVars, storeVars, batchVars, firstVars>>
        \/ GmReturn(t) /\ UNCHANGED <<chunkVars, storeVars, batchVars, firstVars>>
        \/ UseModel(t) /\ UNCHANGED <<chunkVars, storeVars, batchVars, firstVars>>

SpecEmbed == EmbInit /\ [][EmbNext]_vars

(***************************************************************************)
(* The specification of VectorDBService: one caller making calls in turn.  *)
(***************************************************************************)
threadVars == <<e_lock, ctor_failed, tpc, tcall, tmodel, tenc, tres>>

StoreInit == StoreIdle /\ EmbIdle /\ ChunkIdle /\ BatchIdle /\ FirstIdle

StoreNext ==
    \/ \E a \in AddArguments, ok \in BOOLEAN :
          CallAddDocumentChunks(a[1], a[2], ok)
            /\ UNCHANGED <<chunkVars, threadVars, batchVars, firstVars>>
    \/ \E ok \in BOOLEAN :
          CallGetCollectionStats(ok)
            /\ UNCHANGED <<chunkVars, threadVars, batchVars, firstVars>>
    \/ \E q \in Queries, k \in 1..MaxResults, w \in Filters :
        \E ok \in Availability(k) :
          CallSearchSimilar(q, k, w, ok)
            /\ UNCHANGED <<chunkVars, threadVars, batchVars, firstVars>>
    \/ \E q \in Queries, c \in QueryCategories, k \in 1..MaxResults :
        \E ok \in Availability(k) :
          CallSearchByCategory(q, c, k, ok)
            /\ UNCHANGED <<chunkVars, threadVars, batchVars, firstVars>>
    \/ \E ok \in BOOLEAN :
          CallDeleteCollection(ok)
            /\ UNCHANGED <<chunkVars, threadVars, batchVars, firstVars>>

SpecStore == StoreInit /\ [][StoreNext]_vars

(***************************************************************************)
(* The specification of batch_ingest_datasheets: one call on a service     *)
(* with a new store, over the files fs.                                    *)
(***************************************************************************)
BatchInit ==
    /\ BatchStart
    /\ StoreIdle
    /\ EmbIdle
    /\ FirstIdle
    /\ text = <<>>
    /\ \E c \in BatchConfigs :
         /\ min_chunk_size = c.mn
         /\ max_chunk_size = c.mx
         /\ overlap_size = c.ov
    /\ cpc = "done"
    /\ start_pos = 0
    /\ chunk_index = 0
    /\ chunks = <<>>
    /\ iters = <<>>

BatchNext ==
    \/ \E ok \in BOOLEAN : BatchEntry(ok) /\ UNCHANGED <<chunkVars, threadVars, firstVars>>
    \/ BatchReturn /\ UNCHANGED <<chunkVars, threadVars, firstVars>>

SpecBatch == BatchInit /\ [][BatchNext]_vars

(***************************************************************************)
(* The specification of the first calls: NumThreads threads of one process *)
(* in which no service exists yet, over a store without the collection.    *)
(***************************************************************************)
otherVars == <<chunkVars, batchVars, e_model, e_lock, tpc, tcall, tmodel,
               tenc, tres, v_client, v_collection, v_calls, v_last, v_added>>

FirstInit == FirstIdle /\ StoreIdle /\ EmbIdle /\ ChunkIdle /\ BatchIdle

FirstNext ==
    \E t \in Threads :
        \/ \E op \in FirstOps : FirstCall(t, op) /\ UNCHANGED otherVars
        \/ VdbCheck(t) /\ UNCHANGED otherVars
        \/ VdbMake(t) /\ UNCHANGED otherVars
        \/ VdbReturn(t) /\ UNCHANGED otherVars
        \/ FcCheck(t) /\ UNCHANGED otherVars
        \/ ClientCheck(t) /\ UNCHANGED otherVars
        \/ ClientMake(t) /\ UNCHANGED otherVars
        \/ GesCheck(t) /\ UNCHANGED otherVars
        \/ GesMake(t) /\ UNCHANGED otherVars
        \/ GesReturn(t) /\ UNCHANGED otherVars
        \/ SvcUse(t) /\ UNCHANGED otherVars
        \/ TryGet(t) /\ UNCHANGED otherVars
        \/ Create(t) /\ UNCHANGED otherVars
        \/ CreateAssign(t) /\ UNCHANGED otherVars
        \/ FcReturn(t) /\ UNCHANGED otherVars
        \/ FirstOp(t) /\ UNCHANGED otherVars
        \/ SvcCheck1(t) /\ UNCHANGED otherVars
        \/ SvcAcquire(t) /\ UNCHANGED otherVars
        \/ SvcCheck2(t) /\ UNCHANGED otherVars
        \/ SvcConstructCall(t) /\ UNCHANGED otherVars
        \/ SvcConstruct(t) /\ UNCHANGED otherVars
        \/ SvcConstructRaises(t) /\ UNCHANGED otherVars
        \/ SvcRelease(t) /\ UNCHANGED otherVars
        \/ SvcReturn(t) /\ UNCHANGED otherVars
        \/ SvcEncode(t) /\ UNCHANGED otherVars
        \/ \E ok \in BOOLEAN : FirstStore(t, ok) /\ UNCHANGED otherVars

SpecFirst == FirstInit /\ [][FirstNext]_vars

(***************************************************************************)
(* Properties of create_text_chunks.                                       *)
(***************************************************************************)

\* position p of the text lies in the span of an emitted chunk
Covered(p) ==
    \E i \in 1..Len(chunks) :
        chunks[i].chunk_start <= p /\ p < chunks[i].chunk_end

\* a sentence delimiter occupies positions p and p + 1 of the text
DelimiterAt(p) ==
    /\ p >= 0
    /\ p + 2 <= Len(text)
    /\ text[p + 1] \in {".", "!", "?"}
    /\ text[p + 2] \in {" ", "\n"}

\* the end positions of the delimiters lying inside the search window of
\* the iteration it
WindowDelimiterEnds(it) ==
    {p + 2 : p \in {q \in Max2(it.start + min_chunk_size,
                               it.end0 - SentenceWindow)..(it.end0 - 2) :
                       DelimiterAt(q)}}

\* C1 (as claimed): Coverage. Once create_text_chunks has returned for a
\* text that is not blank and has at least min_chunk_size characters, every
\* position of the text lies in the span of an emitted chunk.
C1_Coverage ==
    (cpc = "done" /\ ~IsBlank(text) /\ Len(text) >= min_chunk_size)
        => \A p \in 0..(Len(text) - 1) : Covered(p)

\* C2 (as claimed): an iteration whose span reaches the end of the text
\* always emits its chunk, and a chunk is dropped only if its trimmed
\* length is below min_chunk_size and its span stops before the end.
C2_EndChunkKept ==
    \A i \in 1..Len(iters) :
        /\ iters[i].end = Len(text) => iters[i].kept
        /\ ~iters[i].kept =>
              (iters[i].len < min_chunk_size /\ iters[i].end < Len(text))

\* C3 (as claimed): Short-text passthrough. For a text that is not blank
\* and shorter than min_chunk_size, create_text_chunks returns exactly one
\* chunk: the trimmed text, with index 0 and span [0, len(text)).
C3_ShortText ==
    (cpc = "done" /\ ~IsBlank(text) /\ Len(text) < min_chunk_size)
        => chunks = << [text |-> Strip(text), chunk_index |-> 0,
                        chunk_start |-> 0, chunk_end |-> Len(text),
                        chunk_length |-> Len(Strip(text)),
                        total_text_length |-> Len(text)] >>

\* C4: Progress and termination. The cursor grows by at least
\* min_chunk_size in every iteration, so the loop runs at most
\* ceil(len(text) / min_chunk_size) times, emits at most one chunk per
\* iteration, and is never stuck before it returns.
C4_Progress ==
    /\ \A i \in 1..(Len(iters) - 1) :
          iters[i + 1].start >= iters[i].start + min_chunk_size
    /\ iters # <<>> =>
          start_pos >= iters[Len(iters)].start + min_chunk_size
    /\ Len(iters) * min_chunk_size <= Len(text) + min_chunk_size - 1
    /\ Len(chunks) <= Len(iters)
    /\ cpc = "loop" => start_pos < Len(text)

\* C4 witness: a call that has returned after three or more iterations,
\* with exactly ceil(len(text) / min_chunk_size) of them.
C4_Witness ==
    /\ cpc = "done"
    /\ Len(iters) >= 3
    /\ (Len(iters) - 1) * min_chunk_size < Len(text)
    /\ Len(text) <= Len(iters) * min_chunk_size

\* C10 (as claimed): Sentence-boundary choice. In an iteration whose
\* tentative end is before the end of the text and whose search window
\* holds a delimiter, the end of the chunk is the end of the latest
\* delimiter of the window.
C10_LatestDelimiter ==
    \A i \in 1..Len(iters) :
        (iters[i].end0 < Len(text) /\ WindowDelimiterEnds(iters[i]) # {})
            => iters[i].end = SetMax(WindowDelimiterEnds(iters[i]))

\* the chunk c ends, after trimming, with a sentence terminator
EndsSentence(c) ==
    c.text # <<>> /\ c.text[Len(c.text)] \in {".", "!", "?"}

\* a sentence delimiter lies in the last SentenceWindow characters of the
\* maximal window [chunk_start, min(chunk_start + max_chunk_size, len(text)))
\* of the chunk c
TrailingDelimiter(c) ==
    LET e0 == TentativeEnd(text, max_chunk_size, c.chunk_start)
    IN  \E p \in Max2(c.chunk_start, e0 - SentenceWindow)..(e0 - 2) :
            DelimiterAt(p)

\* C11 (as claimed): once create_text_chunks has returned, every emitted
\* chunk but the last ends, after trimming, with '.', '!' or '?' whenever a
\* sentence delimiter lies in the trailing 200 characters of its maximal
\* window.
C11_SentenceEnd ==
    cpc = "done" =>
        \A i \in 1..(Len(chunks) - 1) :
            TrailingDelimiter(chunks[i]) => EndsSentence(chunks[i])

\* the iteration that emitted the j-th chunk
IterOf(j) == Kth({i \in 1..Len(iters) : iters[i].kept}, j)

\* C12: Overlap bound. For consecutively emitted chunks i, i+1,
\* chunk_end[i] - chunk_start[i+1] is at most overlap_size + 100.
C12_OverlapBound ==
    \A i \in 1..(Len(chunks) - 1) :
        chunks[i].chunk_end - chunks[i + 1].chunk_start <= overlap_size + 100

\* C12 witness: with the parameters of __init__, a returned call whose
\* first chunk was cut at a sentence boundary and whose second chunk starts
\* exactly overlap_size characters before the end of the first.
C12_Witness ==
    /\ cpc = "done"
    /\ overlap_size = DefaultOverlapSize
    /\ Len(chunks) >= 2
    /\ chunks[1].chunk_end < chunks[1].chunk_start + max_chunk_size
    /\ chunks[1].chunk_end < Len(text)
    /\ chunks[1].chunk_end - chunks[2].chunk_start = overlap_size

\* C13 (as claimed): consecutively emitted chunks always overlap:
\* chunk_start[i+1] < chunk_end[i].
C13_AlwaysOverlap ==
    \A i \in 1..(Len(chunks) - 1) :
        chunks[i + 1].chunk_start < chunks[i].chunk_end

\* C13 (amended): for consecutively emitted chunks i, i+1, chunk i+1 starts
\* no earlier than max(chunk_start[i] + min_chunk_size,
\* chunk_end[i] - overlap_size), and exactly there when no iteration between
\* the two was dropped; the two then overlap, by
\* min(overlap_size, chunk_end[i] - chunk_start[i] - min_chunk_size)
\* characters, exactly when overlap_size > 0 and chunk i spans more than
\* min_chunk_size characters, and otherwise chunk i+1 starts where chunk i
\* ends.
C13_OverlapOfSuccessive ==
    \A j \in 1..(Len(chunks) - 1) :
        LET span  == chunks[j].chunk_end - chunks[j].chunk_start
            over  == chunks[j].chunk_end - chunks[j + 1].chunk_start
            lower == Max2(chunks[j].chunk_start + min_chunk_size,
                          chunks[j].chunk_end - overlap_size)
        IN  /\ chunks[j + 1].chunk_start >= lower
            /\ IterOf(j + 1) = IterOf(j) + 1 =>
                  /\ chunks[j + 1].chunk_start = lower
                  /\ over = Min2(overlap_size, span - min_chunk_size)
                  /\ over > 0 <=> (overlap_size > 0 /\ span > min_chunk_size)
                  /\ over >= 0

\* C13 witness: a returned call with three chunks from successive
\* iterations, each overlapping the next by overlap_size characters.
C13_Witness ==
    /\ cpc = "done"
    /\ Len(chunks) >= 3
    /\ overlap_size > 0
    /\ IterOf(2) = IterOf(1) + 1
    /\ IterOf(3) = IterOf(2) + 1
    /\ chunks[1].chunk_end - chunks[2].chunk_start = overlap_size
    /\ chunks[2].chunk_end - chunks[3].chunk_start = overlap_size

\* C14: Chunk size bounds. Every emitted chunk has trimmed length at most
\* max_chunk_size, and once create_text_chunks has returned every emitted
\* chunk but the last has trimmed length at least min_chunk_size.
C14_SizeBounds ==
    /\ \A i \in 1..Len(chunks) :
          /\ Len(chunks[i].text) <= max_chunk_size
          /\ chunks[i].chunk_length = Len(chunks[i].text)
    /\ \A i \in 1..(Len(chunks) - 1) :
          Len(chunks[i].text) >= min_chunk_size

\* C14 witness: a returned call in which an iteration was dropped for its
\* short trimmed text, a chunk of max_chunk_size characters was emitted and
\* the last chunk is shorter than min_chunk_size.
C14_Witness ==
    /\ cpc = "done"
    /\ Len(chunks) >= 2
    /\ \E i \in 1..Len(iters) : ~iters[i].kept
    /\ \E i \in 1..Len(chunks) : Len(chunks[i].text) = max_chunk_size
    /\ Len(chunks[Len(chunks)].text) < min_chunk_size

\* C15: Segment invariant. Every emitted chunk has
\* 0 <= chunk_start < chunk_end <= total_text_length = len(text), and its
\* text is the trimmed text[chunk_start:chunk_end].
C15_Segment ==
    \A i \in 1..Len(chunks) :
        /\ 0 <= chunks[i].chunk_start
        /\ chunks[i].chunk_start < chunks[i].chunk_end
        /\ chunks[i].chunk_end <= chunks[i].total_text_length
        /\ chunks[i].total_text_length = Len(text)
        /\ chunks[i].text =
              Strip(Slice(text, chunks[i].chunk_start, chunks[i].chunk_end))

\* C15 witness: an emitted chunk that does not start at 0, was cut at a
\* sentence boundary before the end of the text and is shorter than its
\* span because of the trimming.
C15_Witness ==
    \E i \in 1..Len(chunks) :
        /\ chunks[i].chunk_start > 0
        /\ chunks[i].chunk_end < Len(text)
        /\ chunks[i].chunk_end < chunks[i].chunk_start + max_chunk_size
        /\ chunks[i].chunk_length <
              chunks[i].chunk_end - chunks[i].chunk_start

\* the emitted chunks whose span reaches the end of the text
EndChunks == {j \in 1..Len(chunks) : chunks[j].chunk_end = Len(text)}

\* C26: at most one emitted chunk has a span that reaches the end of the
\* text, and no emitted chunk's span lies within the span of a chunk emitted
\* before it.
C26_SingleEndChunk ==
    /\ Cardinality(EndChunks) <= 1
    /\ \A i \in 1..Len(chunks) :
         \A j \in (i + 1)..Len(chunks) :
            ~ /\ chunks[i].chunk_start <= chunks[j].chunk_start
              /\ chunks[j].chunk_end <= chunks[i].chunk_end

\* C30: every emitted chunk has a text that is not empty and holds a
\* character that is not whitespace.
C30_NonBlankChunks ==
    \A j \in 1..Len(chunks) :
        /\ chunks[j].text # <<>>
        /\ \E i \in 1..Len(chunks[j].text) : chunks[j].text[i] \notin Whitespace

\* C30 witness: the call has returned; one window held whitespace only and
\* was not emitted, and one emitted chunk lost whitespace to the strip.
C30_Witness ==
    /\ cpc = "done"
    /\ \E i \in 1..Len(iters) : ~iters[i].kept /\ iters[i].len = 0
    /\ \E j \in 1..Len(chunks) :
         chunks[j].chunk_length < chunks[j].chunk_end - chunks[j].chunk_start

(***************************************************************************)
(* Properties of EmbeddingService.                                         *)
(***************************************************************************)

\* _get_model has returned to thread t
GotModel(t) ==
    \/ tpc[t] = "encode"
    \/ tpc[t] = "done" /\ ~(tcall[t].op = "generate_embeddings"
                            /\ tcall[t].arg = <<>>)

\* the positions of the entries of xs that are not blank
SolidEntries(xs) == {i \in 1..Len(xs) : Strip(xs[i]) # <<>>}

\* the entries of xs that are not blank, in their order in xs
SolidInOrder(xs) ==
    [j \in 1..Cardinality(SolidEntries(xs)) |-> xs[Kth(SolidEntries(xs), j)]]

\* C5: concurrent first calls of _get_model build one encoder. At most one
\* constructor call succeeds; unless a constructor call raised, the
\* constructor is called at most once; and every thread to which _get_model
\* has returned holds the one encoder that was built and stored.
C5_SingleEncoder ==
    /\ ctor_calls - ctor_failed <= 1
    /\ ctor_failed = 0 => ctor_calls <= 1
    /\ \A t \in Threads :
          GotModel(t) => /\ tmodel[t] # 0
                         /\ tmodel[t] = e_model
                         /\ ctor_calls - ctor_failed = 1
    /\ \A t, u \in Threads :
          (GotModel(t) /\ GotModel(u)) => tmodel[t] = tmodel[u]

\* C5 witness: a thread that saw no encoder outside the lock holds the lock
\* at the inner test after another thread has built the encoder.
C5_Witness ==
    \E t \in Threads :
        /\ tpc[t] = "check2"
        /\ e_lock = t
        /\ e_model # 0
        /\ ctor_calls = 1

\* C8: a generate_embeddings call that has returned gives one embedding per
\* entry that is not blank, in the entries' order; the encoder was called
\* once, with exactly those entries; for the empty list the result is
\* empty and the encoder was not called.
C8_OnePerSolidEntry ==
    \A t \in Threads :
        (tcall[t].op = "generate_embeddings" /\ tpc[t] = "done") =>
            /\ tres[t].status = "ok"
            /\ Len(tres[t].value) = Cardinality(SolidEntries(tcall[t].arg))
            /\ tres[t].value =
                  [j \in 1..Cardinality(SolidEntries(tcall[t].arg)) |->
                      Embed(SolidInOrder(tcall[t].arg)[j])]
            /\ tenc[t] = IF tcall[t].arg = <<>> THEN <<>>
                         ELSE <<SolidInOrder(tcall[t].arg)>>

\* C8 witness: a returned call whose list held a blank entry before an
\* entry that is not blank.
C8_Witness ==
    \E t \in Threads :
        /\ tcall[t].op = "generate_embeddings"
        /\ tpc[t] = "done"
        /\ Len(tcall[t].arg) >= 2
        /\ 1 \notin SolidEntries(tcall[t].arg)
        /\ Len(tres[t].value) = 1

\* thread t made a call whose input is blank: generate_embedding of a
\* blank text, or generate_embeddings of a list, not empty, of blank texts
BlankCall(t) ==
    \/ tcall[t].op = "generate_embedding" /\ Strip(tcall[t].arg[1]) = <<>>
    \/ /\ tcall[t].op = "generate_embeddings"
       /\ tcall[t].arg # <<>>
       /\ SolidEntries(tcall[t].arg) = {}

\* the state of a blank call: it has raised the error of its function and
\* has neither obtained nor used the encoder
BlankCallRejected ==
    \A t \in Threads :
        BlankCall(t) =>
            /\ tpc[t] = "raised"
            /\ tres[t].status = IF tcall[t].op = "generate_embedding"
                                THEN "EmptyInput" ELSE "AllInputsEmpty"
            /\ tmodel[t] = 0
            /\ tenc[t] = <<>>

\* the step in which a blank call is made leaves the encoder, the lock and
\* the constructor count as they were
BlankCallStep ==
    \A t \in Threads :
        (tcall[t].op = "none" /\ tcall'[t].op # "none" /\ BlankCall(t)') =>
            /\ e_model' = e_model
            /\ e_lock' = e_lock
            /\ ctor_calls' = ctor_calls

\* C9: blank input is rejected before the encoder is touched.
\* generate_embedding of a blank text raises EmptyInput and
\* generate_embeddings of a list of blank texts raises AllInputsEmpty, and
\* the call leaves _model unchanged.
C9_BlankRejected == []BlankCallRejected /\ [][BlankCallStep]_vars

\* C9 witness: both errors have been raised and no encoder was built.
C9_Witness ==
    /\ \E t \in Threads : tres[t].status = "EmptyInput"
    /\ \E t \in Threads : tres[t].status = "AllInputsEmpty"
    /\ e_model = 0
    /\ ctor_calls = 0

\* the lock is held only by a thread inside the with block of _get_model;
\* a thread whose call raised EncoderUnavailable got no encoder and used
\* none; _model is None or an encoder whose constructor returned; and every
\* thread to which _get_model returned holds an encoder
NoPoisonedState ==
    /\ e_lock # 0 =>
          tpc[e_lock] \in {"check2", "construct", "constructing", "release"}
    /\ \A t \in Threads :
          tres[t].status = "EncoderUnavailable" =>
              /\ tpc[t] = "raised"
              /\ tmodel[t] = 0
              /\ tenc[t] = <<>>
    /\ e_model \in 0..ctor_calls
    /\ ctor_calls = ctor_failed => e_model = 0
    /\ \A t \in Threads : GotModel(t) => tmodel[t] # 0

\* the step in which the constructor raises: the error is that caller's
\* outcome, the lock it held is free and _model is still None; and a thread
\* that finds _model None under the lock goes on to call the constructor,
\* whatever happened before
ConstructorRaisesStep ==
    /\ \A t \in Threads :
          (tpc[t] = "constructing" /\ tpc'[t] = "raised") =>
              /\ tres'[t].status = "EncoderUnavailable"
              /\ e_lock = t /\ e_lock' = 0
              /\ e_model = 0 /\ e_model' = 0
              /\ \A u \in Threads \ {t} : tpc'[u] = tpc[u] /\ tres'[u] = tres[u]
    /\ \A t \in Threads :
          (tpc[t] = "check2" /\ tpc'[t] # "check2" /\ e_model = 0) =>
              tpc'[t] = "construct"
    /\ \A t \in Threads :
          (tpc[t] = "construct" /\ tpc'[t] # "construct") =>
              /\ tpc'[t] = "constructing"
              /\ ctor_calls' = ctor_calls + 1

\* C29: a constructor that raises inside _get_model leaves no poisoned
\* state: the error goes to the caller whose call ran the constructor, the
\* lock is released, _model stays None, no thread gets an encoder that was
\* not built, no thread is left waiting for a lock that nobody will release,
\* and a later call runs the constructor again.
C29_NoPoisonedState == []NoPoisonedState /\ [][ConstructorRaisesStep]_vars

\* C29 witness: the first constructor call raised in one thread, and another
\* thread ran the constructor again and got the encoder it built.
C29_Witness ==
    \E t, u \in Threads :
        /\ tres[t].status = "EncoderUnavailable"
        /\ ctor_failed = 1
        /\ e_model = 2
        /\ GotModel(u) /\ tmodel[u] = 2

(***************************************************************************)
(* Properties of VectorDBService.                                          *)
(***************************************************************************)

\* the step is a call of add_document_chunks with lists of unequal length
MismatchedAddStep ==
    /\ v_calls' = v_calls + 1
    /\ v_last'.op = "add"
    /\ v_last'.n_docs # v_last'.n_metas

\* C7: add_document_chunks with lists of unequal length raises
\* LengthMismatch before any other effect: no id is generated, the client
\* and the collection handle are as before, no collection is created, the
\* stored records are unchanged and the encoder is not loaded.
C7_MismatchNoEffect ==
    [][MismatchedAddStep =>
          /\ v_last'.status = "LengthMismatch"
          /\ v_last'.ids = <<>>
          /\ UNCHANGED <<next_id, v_client, v_collection, db_exists, db_gen,
                         db_records, e_model, ctor_calls>>]_vars

\* C7 witness: the call was the first on a new service: it has failed and
\* there is still no client, no handle, no collection and no id.
C7_Witness ==
    /\ v_last.op = "add"
    /\ v_last.status = "LengthMismatch"
    /\ v_last.n_docs = 2
    /\ v_calls = 1
    /\ v_client = 0
    /\ v_collection = 0
    /\ ~db_exists
    /\ next_id = 0

\* the last call was a search call
SearchCall == v_last.op \in {"search_similar", "search_by_category"}

\* the stored records whose metadata satisfies the filter of the last call
MatchingRecords ==
    {i \in 1..Len(db_records) :
        Matches(db_records[i].metadata, v_last.found.where)}

\* the distance of the stored record i from the query of the last call
QueryDistance(i) == Distance(Embed(v_last.found.query), db_records[i].embedding)

\* what a search returns for the stored record i
ResultOf(i) == <<db_records[i].text, db_records[i].metadata, QueryDistance(i)>>

\* the j-th entry of the result of the last call
ReturnedAt(j) == <<v_last.found.documents[j], v_last.found.metadatas[j],
                   v_last.found.distances[j]>>

\* the number of entries of the result equal to the triple x, and the
\* number of matching records that give x
TimesReturned(x) ==
    Cardinality({j \in 1..Len(v_last.found.documents) : ReturnedAt(j) = x})

TimesMatching(x) == Cardinality({i \in MatchingRecords : ResultOf(i) = x})

\* C16: Category filter correctness. Every entry of a result of
\* search_by_category(query, c, k) has metadata category c, and the call has
\* the outcome of search_similar(query, k, {'category': c}) on the same
\* store: the same documents, metadata and distances, or the same error.
C16_CategoryFilter ==
    v_last.op = "search_by_category" =>
        LET f == v_last.found
            r == SearchSimilar(StoreState, f.query, f.n_results, f.where,
                               f.avail)
        IN  /\ \A p \in f.where, j \in 1..Len(f.metadatas) :
                  f.metadatas[j][p[1]] = p[2]
            /\ \E c \in QueryCategories : f.where = {<<"category", c>>}
            /\ r.status = v_last.status
            /\ r.documents = f.documents
            /\ r.metadatas = f.metadatas
            /\ r.distances = f.distances

\* C16 witness: search_by_category asked for two results and returned the
\* one record of the category, while the store holds a record of another
\* category that is nearer to the query.
C16_Witness ==
    /\ v_last.op = "search_by_category"
    /\ v_last.status = "ok"
    /\ v_last.found.n_results = 2
    /\ Len(v_last.found.documents) = 1
    /\ \E i \in 1..Len(db_records) :
          /\ i \notin MatchingRecords
          /\ QueryDistance(i) < v_last.found.distances[1]

\* C17: a search that returns gives the n_results nearest matching records:
\* exactly min(n_results, number of matching records) entries, each the
\* text, metadata and distance of a matching record, no record more often
\* than it is stored, in order of non-decreasing distance, and no matching
\* record left out is strictly nearer than one returned. The call fails
\* only for a blank query or an unavailable store, so a filter that matches
\* nothing gives the empty result.
C17_NearestMatching ==
    SearchCall =>
        LET f == v_last.found
            n == Len(f.documents)
        IN  /\ v_last.status # "ok" => (IsBlank(f.query) \/ ~f.avail)
            /\ v_last.status = "ok" =>
                  /\ n = Min2(f.n_results, Cardinality(MatchingRecords))
                  /\ Len(f.metadatas) = n
                  /\ Len(f.distances) = n
                  /\ \A j \in 1..(n - 1) :
                        f.distances[j] <= f.distances[j + 1]
                  /\ \A j \in 1..n :
                        /\ \E i \in MatchingRecords : ResultOf(i) = ReturnedAt(j)
                        /\ TimesReturned(ReturnedAt(j)) <=
                              TimesMatching(ReturnedAt(j))
                  /\ \A i \in MatchingRecords :
                        TimesReturned(ResultOf(i)) < TimesMatching(ResultOf(i))
                            => \A j \in 1..n :
                                  QueryDistance(i) >= f.distances[j]

\* C17 witness: a filtered search returned two of three matching records,
\* the nearer first, the one left out being no nearer than the second.
C17_Witness ==
    /\ SearchCall
    /\ v_last.status = "ok"
    /\ v_last.found.where # {}
    /\ v_last.found.n_results = 2
    /\ Cardinality(MatchingRecords) = 3
    /\ Len(v_last.found.distances) = 2
    /\ v_last.found.distances[1] < v_last.found.distances[2]

\* the last call was a delete_collection that succeeded
AfterDelete == v_last.op = "delete" /\ v_last.status = "ok"

\* the store after any call: a successful delete_collection leaves no
\* cached handle, no collection and no record; a cached handle is always of
\* the collection the store holds; every record was added to that
\* collection
DeleteClearsHandle ==
    /\ AfterDelete => (v_collection = 0 /\ ~db_exists /\ db_records = <<>>)
    /\ v_collection # 0 => (db_exists /\ v_collection = db_gen)
    /\ \A i \in 1..Len(db_records) : db_records[i].gen = db_gen

\* the call that follows a successful delete_collection: unless it is an
\* add_document_chunks rejected for its lengths, it creates a new
\* collection and works on it: the stats count is 0, a search finds
\* nothing, and the records after an add are those of this add
FirstCallAfterDelete ==
    (AfterDelete /\ v_calls' = v_calls + 1 /\ v_last'.op # "delete"
        /\ v_last'.status # "LengthMismatch") =>
        /\ db_exists'
        /\ db_gen' = db_gen + 1
        /\ v_collection' = db_gen'
        /\ v_last'.op = "stats" =>
              (v_last'.status = "ok" => v_last'.count = 0)
        /\ v_last'.op \in {"search_similar", "search_by_category"} =>
              v_last'.found.documents = <<>>
        /\ v_last'.op = "add" =>
              /\ Len(db_records') = Len(v_last'.ids)
              /\ \A i \in 1..Len(db_records') :
                    db_records'[i].id = v_last'.ids[i]

\* C18: after a successful delete_collection the cached handle is cleared
\* and the next add_document_chunks, search_similar or get_collection_stats
\* call works on a newly created empty collection; no record added before
\* the delete is stored, found or counted afterwards.
C18_FreshAfterDelete == []DeleteClearsHandle /\ [][FirstCallAfterDelete]_vars

\* C18 witness: records were added, the collection was deleted, and an add
\* after the delete has stored its records in the second collection.
C18_Witness ==
    /\ db_gen = 2
    /\ db_exists
    /\ v_collection = 2
    /\ v_last.op = "add"
    /\ v_last.status = "ok"
    /\ db_records # <<>>
    /\ next_id > Len(db_records)
    /\ db_records[1].id > 1

\* C19: Count tracking. The collection holds as many records as the
\* successful add_document_chunks calls since the last successful
\* delete_collection added chunks (0 on a new store), and a
\* get_collection_stats call that returns a count returns that number.
C19_CountTracking ==
    /\ Len(db_records) = v_added
    /\ (v_last.op = "stats" /\ v_last.status = "ok") =>
          v_last.count = v_added
    /\ (v_last.op = "add" /\ v_last.status # "ok") => v_last.ids = <<>>

\* C19 witness: get_collection_stats returned a count of at least one
\* after an add that stored chunks and a later add that failed after its
\* ids had been generated, with no delete in between.
C19_Witness ==
    /\ v_last.op = "stats"
    /\ v_last.status = "ok"
    /\ v_last.count >= 1
    /\ next_id > v_last.count
    /\ db_gen = 1

\* C27: after an add_document_chunks call with lists of equal length, the
\* embedding function of the collection has returned one embedding per
\* chunk (it has neither raised for the texts nor returned another number of
\* embeddings), and every stored record holds the embedding of its own text.
C27_EmbeddingAlignment ==
    /\ (v_last.op = "add" /\ v_last.n_docs = v_last.n_metas) =>
          v_last.status \notin {"AllInputsEmpty", "EmbeddingCountMismatch"}
    /\ \A i \in 1..Len(db_records) :
          db_records[i].embedding = Embed(db_records[i].text)

(***************************************************************************)
(* Properties of batch_ingest_datasheets.                                  *)
(***************************************************************************)

\* the paths of the configuration list are pairwise distinct
DistinctPaths ==
    \A i, j \in 1..Len(b_configs) :
        b_configs[i].pdf_path = b_configs[j].pdf_path => i = j

\* C6: batch_ingest_datasheets never raises and handles every entry. For a
\* list of pairwise distinct paths the dictionary has one key per entry
\* handled; an entry whose path is missing or whose ingest_datasheet call
\* raised maps to the empty list, every other entry to the ids its own
\* ingest_datasheet call returned; and the call returns only after every
\* entry was handled.
C6_FailureIsolation ==
    /\ b_pc # "raised"
    /\ Len(b_log) = b_pos
    /\ b_pc = "done" => b_pos = Len(b_configs)
    /\ DistinctPaths =>
          /\ DOMAIN b_results = {b_configs[i].pdf_path : i \in 1..b_pos}
          /\ \A i \in 1..b_pos :
                /\ b_log[i].path = b_configs[i].pdf_path
                /\ b_log[i].called = ~PathMissing(fs, b_configs[i].pdf_path)
                /\ b_results[b_configs[i].pdf_path] =
                      IF b_log[i].status = "ok" THEN b_log[i].ids ELSE <<>>

\* C6 witness: a returned call over three distinct paths whose first entry
\* is missing, whose second entry raised in ingest_datasheet and whose
\* third entry stored chunks and maps to their ids.
C6_Witness ==
    /\ b_pc = "done"
    /\ Len(b_configs) = 3
    /\ DistinctPaths
    /\ b_log[1].status = "missing"
    /\ b_log[2].called /\ b_log[2].status # "ok"
    /\ b_log[3].status = "ok" /\ Len(b_log[3].ids) >= 2
    /\ b_results[b_configs[3].pdf_path] = b_log[3].ids
    /\ b_results[b_configs[2].pdf_path] = <<>>

\* the chunks ingest_datasheet derives from the file doc
ChunksOfFile(doc) ==
    CreateTextChunks(CleanText(ExtractText(doc)), min_chunk_size,
                     max_chunk_size, overlap_size)

\* ingest_datasheet is called on the next entry, for a readable file whose
\* extracted text is empty or whose cleaned text gives no chunk
IngestOfNothing ==
    /\ b_pc = "loop"
    /\ b_pos < Len(b_configs)
    /\ b_pos' = b_pos + 1
    /\ ~PathMissing(fs, b_configs[b_pos + 1].pdf_path)
    /\ fs[b_configs[b_pos + 1].pdf_path].kind = "pdf"
    /\ \/ ExtractText(fs[b_configs[b_pos + 1].pdf_path]) = <<>>
       \/ ChunksOfFile(fs[b_configs[b_pos + 1].pdf_path]) = <<>>

\* C20: when the extracted text is empty, and when the cleaned text gives
\* no chunk, ingest_datasheet returns [] and leaves the vector store as it
\* was: no client or collection is opened, no id is generated, no record is
\* added and the encoder is not loaded, whether or not the store is
\* available.
C20_EmptyNoStore ==
    [][IngestOfNothing =>
          /\ b_log'[b_pos + 1] = [path |-> b_configs[b_pos + 1].pdf_path,
                                  called |-> TRUE, status |-> "ok",
                                  ids |-> <<>>, adds |-> <<>>]
          /\ b_results'[b_configs[b_pos + 1].pdf_path] = <<>>
          /\ UNCHANGED <<v_client, v_collection, db_exists, db_gen,
                         db_records, next_id, e_model, ctor_calls>>]_vars

\* C20 witness: after an entry that stored chunks, ingest_datasheet was
\* called for a file whose text is not blank but cleans to nothing, and
\* returned [] with the store as the first entry left it.
C20_Witness ==
    /\ Len(b_log) = 2
    /\ b_log[1].status = "ok" /\ b_log[1].ids # <<>>
    /\ b_log[2].called /\ b_log[2].status = "ok" /\ b_log[2].ids = <<>>
    /\ ExtractText(fs[b_log[2].path]) # <<>>
    /\ ChunksOfFile(fs[b_log[2].path]) = <<>>
    /\ Len(db_records) = Len(b_log[1].ids)
    /\ next_id = Len(b_log[1].ids)

\* the component_info of the i-th entry of the list
InfoOf(i) == b_configs[i].component_info

\* the texts of the chunks cs, in order
TextsOf(cs) == [k \in 1..Len(cs) |-> cs[k].text]

\* C21: an ingest_datasheet call on a file that gives at least one chunk
\* makes exactly one add_document_chunks call, with all the chunks in order
\* and lists of equal length, so the call never raises the length-mismatch
\* error; a call on a file that gives no chunk makes none. When the call
\* on a file with chunks returned, every metadata entry of its add call
\* carries the mpn, manufacturer and category of the entry's component_info
\* ("unknown" for a field it lacks), the base name of the path as
\* source_file and the hash of the file, the same in every entry; and the
\* call returned the ids the add call returned, one per chunk.
C21_OneAddCall ==
    \A i \in 1..Len(b_log) :
        LET doc == fs[b_log[i].path]
            produced == /\ b_log[i].called
                        /\ doc.kind = "pdf"
                        /\ ChunksOfFile(doc) # <<>>
        IN  /\ produced => Len(b_log[i].adds) = 1
            /\ ~produced => b_log[i].adds = <<>>
            /\ \A a \in 1..Len(b_log[i].adds) :
                  /\ Len(b_log[i].adds[a].docs) = Len(b_log[i].adds[a].metas)
                  /\ b_log[i].adds[a].status # "LengthMismatch"
                  /\ b_log[i].adds[a].docs = TextsOf(ChunksOfFile(doc))
            /\ (produced /\ b_log[i].status = "ok") =>
                  /\ Len(b_log[i].adds) = 1
                  /\ LET add == b_log[i].adds[1]
                     IN  /\ Len(add.docs) >= 1
                         /\ add.status = "ok"
                         /\ b_log[i].ids = add.ids
                         /\ Len(add.ids) = Len(add.docs)
                         /\ \A k \in 1..Len(add.metas) :
                               /\ add.metas[k].mpn =
                                     Get(InfoOf(i), "mpn", "unknown")
                               /\ add.metas[k].manufacturer =
                                     Get(InfoOf(i), "manufacturer", "unknown")
                               /\ add.metas[k].category =
                                     Get(InfoOf(i), "category", "unknown")
                               /\ add.metas[k].source_file =
                                     Basename(b_log[i].path)
                               /\ add.metas[k].file_hash =
                                     add.metas[1].file_hash
                               /\ add.metas[k].file_hash = FileHash(doc)
            /\ (b_log[i].status = "ok" /\ b_log[i].adds = <<>>) =>
                  b_log[i].ids = <<>>

\* C21 witness: two ingest_datasheet calls each stored several chunks with
\* one add call, one for the path in a directory with a full
\* component_info, one for a path whose component_info names the mpn only.
C21_Witness ==
    /\ b_pc = "done"
    /\ \E i, j \in 1..Len(b_log) :
         /\ b_log[i].path = "d/p1" /\ b_log[j].path = "p2"
         /\ b_log[i].status = "ok" /\ b_log[j].status = "ok"
         /\ Len(b_log[i].ids) >= 2 /\ Len(b_log[j].ids) >= 2
         /\ b_log[i].adds[1].metas[2].source_file = "p1"
         /\ b_log[i].adds[1].metas[2].manufacturer = "acme"
         /\ b_log[j].adds[1].metas[2].manufacturer = "unknown"

\* the elements of the sequence q
Range(q) == {q[k] : k \in 1..Len(q)}

\* the stored records whose id is one of ids
RecordsOf(ids) == {k \in 1..Len(db_records) : db_records[k].id \in Range(ids)}

\* C22: no two stored records have the same id. When the list names a path
\* twice and the first ingest_datasheet call for it stored chunks, the
\* second call calls add_document_chunks as well, and when the store is
\* available to that call, it returns as many ids as the first, none of them
\* an id of the first; the collection then holds that number of records for
\* each of the two calls, and all of them carry the same file_hash.
C22_NoImplicitDedup ==
    /\ \A k, l \in 1..Len(db_records) :
          db_records[k].id = db_records[l].id => k = l
    /\ \A i, j \in 1..Len(b_log) :
          (/\ i < j
           /\ b_log[i].path = b_log[j].path
           /\ b_log[i].status = "ok"
           /\ b_log[i].ids # <<>>) =>
              /\ b_log[j].adds # <<>>
              /\ b_log[j].adds[1].avail =>
                    /\ b_log[j].status = "ok"
                    /\ Len(b_log[j].ids) = Len(b_log[i].ids)
                    /\ Range(b_log[j].ids) \cap Range(b_log[i].ids) = {}
                    /\ Cardinality(RecordsOf(b_log[i].ids)) = Len(b_log[i].ids)
                    /\ Cardinality(RecordsOf(b_log[j].ids)) = Len(b_log[i].ids)
                    /\ \A k, l \in RecordsOf(b_log[i].ids \o b_log[j].ids) :
                          db_records[k].metadata.file_hash =
                              db_records[l].metadata.file_hash

\* C22 witness: the list names one path twice and nothing else, both
\* ingest_datasheet calls stored several chunks, and the collection holds
\* twice the chunks of the first call.
C22_Witness ==
    /\ b_pc = "done"
    /\ Len(b_log) = 2
    /\ b_log[1].path = b_log[2].path
    /\ b_log[1].status = "ok" /\ b_log[2].status = "ok"
    /\ Len(b_log[1].ids) >= 2
    /\ Len(db_records) = 2 * Len(b_log[1].ids)

\* C28: when batch_ingest_datasheets returns, the id of every record stored
\* during the call is in the list the returned map holds for the path of
\* the record's source document.
C28_NoIdLost ==
    b_pc = "done" =>
        \A k \in 1..Len(db_records) :
            /\ db_records[k].metadata.source_path \in DOMAIN b_results
            /\ db_records[k].id \in
                  Range(b_results[db_records[k].metadata.source_path])

(***************************************************************************)
(* Properties of the first calls.                                          *)
(***************************************************************************)

\* C24: every thread to which get_embedding_service has returned holds the
\* same EmbeddingService instance, and at most one encoder was built in the
\* process (a constructor call that raised built none).
C24_OneService ==
    /\ \A t, u \in Threads :
          (fsvc[t] # 0 /\ fsvc[u] # 0) => fsvc[t] = fsvc[u]
    /\ Cardinality({i \in 1..Len(svc_models) : svc_models[i] # 0}) <= 1

\* C25: the collection is created at most once, and no first call of a
\* thread fails because another thread working on the same VectorDBService
\* created the collection after this one found none.
C25_CreatedOnce ==
    /\ db_gen <= 1
    /\ \A t \in Threads :
          fres[t] = "CollectionExists" =>
              \A u \in Threads \ {t} : fvdb[u] # fvdb[t]

====
